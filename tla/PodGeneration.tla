--------------------------- MODULE PodGeneration ---------------------------
(***************************************************************************)
(* When pods are generated anew, and whether what is generated can run.    *)
(* "options" is what the operator reads: the resource, and the secrets and *)
(* ConfigMaps it names; "generated" is what the stored template was made   *)
(* from.  The template changes, and with it every pod, only if Generate    *)
(* gives something else.                                                   *)
(***************************************************************************)
EXTENDS PodTemplate

CONSTANTS
  Options,       \* the options that are tried
  MaxEdits       \* contents of secrets and ConfigMaps are edited this often

VARIABLES options, generated, edits

vars == <<options, generated, edits>>

None == [kind |-> "none"]

Init == options \in Options /\ generated = None /\ edits = 0

\* A reconciliation up to the update of the StatefulSet or the Deployment; after
\* an error the last template stays.
Reconcile ==
  /\ Accepted(options) /\ generated # options
  /\ generated' = options
  /\ UNCHANGED <<options, edits>>

Edited == edits < MaxEdits /\ edits' = edits + 1 /\ UNCHANGED generated

\* A certificate is renewed in its secret.
RenewCert(role) ==
  /\ options[role].from \in {"secret", "truststore"}
  /\ options' = [options EXCEPT ![role].version = @ + 1]
  /\ Edited

\* The keystore is added to the secret with the certificate.
AddKeystore(role) ==
  /\ options[role].from = "secret" /\ options[role].key \notin options[role].contents
  /\ options' = [options EXCEPT ![role].contents = @ \cup {options[role].key}]
  /\ Edited

\* The user edits a configuration or the credentials.
Edit(version) ==
  /\ options' = [options EXCEPT ![version] = @ + 1]
  /\ Edited

Roles == {"server", "client"} \cap DOMAIN options
Versions == {"solrXmlVersion", "logVersion", "specVersion", "providedVersion", "authVersion"}
              \cap DOMAIN options

Next ==
  \/ Reconcile
  \/ \E role \in Roles : RenewCert(role) \/ AddKeystore(role)
  \/ \E version \in Versions : Edit(version)

Spec == Init /\ [][Next]_vars

-----------------------------------------------------------------------------
(* Properties of the pod that is generated.                                *)

Containers(t) == Append(t.inits, InitContainer(<<"main">>, t.mounts, t.env, {}, {}))

Distinct(seq) == \A i, j \in DOMAIN seq : seq[i] = seq[j] => i = j
Names(seq) == [i \in DOMAIN seq |-> seq[i].name]

\* Both certificates are converted: the code gives the two keystores one volume.
BothConverted(o) ==
  o.kind = "solr" /\ o.client # NoTLS /\ NeedsPkcs12InitContainer(o.server) /\ NeedsPkcs12InitContainer(o.client)

\* The user mounts a volume of another name at the directory of scripts, which
\* the code takes to be the volume "initdb" that its init container writes to.
UserMountsInitdb(o) ==
  o.kind = "solr" /\ \E v \in ToSet(o.volumes) : v.path = InitdbPath /\ v.name # <<"initdb">>

\* The API server would accept the pod: no two volumes, no two init containers
\* and no two mounts of a container clash, and what is mounted is declared.
PodIsValid ==
  (generated # None /\ ~BothConverted(generated) /\ ~UserMountsInitdb(generated)) =>
    LET t == Generate(generated)
        declared == ToSet(Names(t.volumes)) \cup t.claims
    IN  /\ Distinct(Names(t.volumes)) /\ Distinct(Names(t.inits))
        /\ \A c \in ToSet(Containers(t)) :
             /\ \A m \in ToSet(c.mounts) : m.volume \in declared
             /\ Distinct([i \in DOMAIN c.mounts |-> c.mounts[i].path])

Written(init, volume) == {w \in init.writes : Mount(volume, w[1]) \in ToSet(init.mounts)}

\* The files a container sees when it starts, after the first n init containers:
\* those of the volumes it mounts and those written to them.
Visible(t, mounts, n) ==
  UNION {{<<m.path, f>> :
            f \in UNION {v.holds : v \in {v \in ToSet(t.volumes) : v.name = m.volume}}
                   \cup {w[2] : w \in UNION {Written(t.inits[i], m.volume) : i \in 1..n}}} :
         m \in ToSet(mounts)}

IsStore(var) == var \in {"SOLR_SSL_KEY_STORE", "SOLR_SSL_TRUST_STORE",
                         "SOLR_SSL_CLIENT_KEY_STORE", "SOLR_SSL_CLIENT_TRUST_STORE"}
NamesFile(v) ==
  IsStore(v.name) \/ v.name \in {"LOG4J_PROPS", "AWS_SHARED_CREDENTIALS_FILE"}
                  \/ (v.name = "CONFIG_FILE" /\ v.value # <<>>)

\* Files of a directory that an external agent mounts.
External(file) == file[1][1] = "tls-dir-of"
SeenByInits(o, file) == External(file) /\ o[file[1][2]].agent = "all"

\* The agent mounts the directory in the main container only, as
\* enableTLSOnSolrCloudStatefulSet says it does ("some auto-mounted directory on
\* the main container"), and passwords are in files: the init container that reads
\* them does not find them.
PasswordsOutOfReach(o) ==
  o.kind = "solr" /\ \E role \in Roles : HasPasswordsInFiles(o[role]) /\ o[role].agent = "main"

\* The names of the files in the secrets are the ones the code uses.
UsualKeys(c) ==
  c.from = "secret" =>
    /\ c.key = DefaultPkcs12KeystoreFile
    /\ TrustStoreSecret(c) = "same" => c.truststoreKey = DefaultPkcs12TruststoreFile

FilesFound(o) ==
  LET t == Generate(o)
      n == Len(t.inits)
  IN  /\ \A i \in 1..n : \A file \in t.inits[i].reads :
           SeenByInits(o, file) \/ file \in Visible(t, t.inits[i].mounts, i - 1)
      /\ \A file \in t.files \cup {v.value : v \in {v \in ToSet(t.env) : NamesFile(v)}} :
           External(file) \/ file \in Visible(t, t.mounts, n)

\* Every file that Solr, the exporter, their probes or an init container is
\* pointed at is there when the container starts: in a secret or ConfigMap that
\* is mounted at this path, or written by an init container that ran before.
\* Not so for a client certificate that needs conversion (the init container
\* looks in the server's directory), for files with other names, nor for
\* passwords in files that only the main container sees.
FilesExist ==
  (/\ generated # None /\ ~UserMountsInitdb(generated) /\ ~PasswordsOutOfReach(generated)
   /\ \A role \in Roles : UsualKeys(generated[role])
   /\ generated.kind = "solr" => ~NeedsPkcs12InitContainer(generated.client))
    => FilesFound(generated)

\* The place the password of a store comes from when the process starts: the
\* script has the last word, then the last variable of that name.  The exporter
\* only sees what its JAVA_OPTS pass on.
LastNamed(seq, var) == Max({0} \cup {i \in DOMAIN seq : seq[i].name = var})
LastVar(t, var) == LastNamed(t.env, var)
JavaOpts(t) == IF LastVar(t, "JAVA_OPTS") = 0 THEN {} ELSE t.env[LastVar(t, "JAVA_OPTS")].refs

Effective(o, t, var) ==
  LET exported == LastNamed(t.exported, var)
      passedOn == o.kind = "solr" \/ var \in JavaOpts(t)
  IN  IF exported # 0 THEN t.exported[exported].value
      ELSE IF LastVar(t, var) # 0 /\ passedOn THEN t.env[LastVar(t, var)].value
      ELSE <<>>

\* The passwords the options give for the two stores.
KeystorePassword(role, c) ==
  IF c.from # "dir" THEN <<"secret", role, "keystore-password">>
  ELSE IF c.keystorePassword /\ ~c.keystorePasswordFile THEN Inline(role, "keystore-password")
  ELSE InFile(role, "keystore-password")

TruststorePassword(role, c) ==
  CASE c.from # "dir" ->
         <<"secret", role, IF c.truststorePassword THEN "truststore-password" ELSE "keystore-password">>
    [] c.from = "dir" /\ ~c.truststoreFile -> KeystorePassword(role, c)
    [] c.from = "dir" /\ c.truststoreFile /\ c.truststorePasswordFile -> InFile(role, "truststore-password")
    [] c.from = "dir" /\ c.truststoreFile /\ ~c.truststorePasswordFile ->
         IF c.truststorePassword THEN Inline(role, "truststore-password") ELSE KeystorePassword(role, c)

\* Passwords are only given for stores that are given.
PasswordsHaveStores(o, role) ==
  LET c == o[role]
  IN  CASE c.from = "none" -> TRUE
        [] c.from \in {"secret", "truststore"} -> c.truststorePassword => TrustStoreSecret(c) # "none"
        [] c.from = "dir" -> /\ c.truststorePassword \/ c.truststorePasswordFile => c.truststoreFile
                             /\ role = "client" /\ c.keystorePassword => c.keystoreFile

\* The exporter's script takes the keystore's password for the truststore, too.
ExporterMixesPasswords(o) ==
  /\ o.kind = "exporter" /\ o.client.from = "dir"
  /\ o.client.keystoreFile /\ KeystorePasswordInFile(o.client)
  /\ o.client.truststorePassword /\ ~o.client.truststorePasswordFile

\* A truststore of Solr has no password of its own, and the keystore's is in a
\* file: the script passes it on with ${...}, which is empty where it is expanded.
PassedOnPassword(o) ==
  /\ o.kind = "solr"
  /\ \E role \in Roles :
       /\ o[role].from = "dir" /\ KeystorePasswordInFile(o[role])
       /\ ~o[role].truststorePassword /\ ~o[role].truststorePasswordFile

\* Solr and the exporter open each store they are given with that store's own
\* password, wherever the user keeps it: in a secret, in the resource or in a
\* file of the mounted directory, with the defaults the API documents.  What the
\* comment in generateTLSInitdbScriptInitContainer promises does not happen in two
\* cases: passwords in files only the main container sees, and a keystore's
\* password from a file that the truststore is to be opened with.
StoresOpen ==
  (/\ generated # None /\ ~ExporterMixesPasswords(generated)
   /\ ~PasswordsOutOfReach(generated) /\ ~PassedOnPassword(generated)
   /\ \A role \in Roles : PasswordsHaveStores(generated, role)) =>
    LET t == Generate(generated)
        as(role) == IF generated.kind = "exporter" THEN "exporter" ELSE role
        opens(var, password) == LastVar(t, var) # 0 => Effective(generated, t, PasswordOf(var)) = password
    IN  \A role \in {r \in Roles : generated[r] # NoTLS} :
          LET c == generated[role]
              key == IF role = "server" THEN "SOLR_SSL_KEY_STORE" ELSE "SOLR_SSL_CLIENT_KEY_STORE"
              trust == IF role = "server" THEN "SOLR_SSL_TRUST_STORE" ELSE "SOLR_SSL_CLIENT_TRUST_STORE"
          IN  /\ opens(key, KeystorePassword(as(role), c))
              /\ opens(trust, TruststorePassword(as(role), c))

\* The variables whose values have to reach the process through its options.
Needed(o) ==
  (IF o.acls # {} THEN {"SOLR_ZK_CREDS_AND_ACLS"} ELSE {})
    \cup (IF o.kind = "solr" THEN o.solrOpts
          ELSE (IF o.basicAuth THEN {"BASIC_AUTH_USER", "BASIC_AUTH_PASS"} ELSE {})
                 \cup (IF o.client # NoTLS THEN {"SOLR_SSL_CLIENT_TRUST_STORE"} ELSE {}))

\* The user sets the variable of the options, or uses a variable that the code
\* defines after it.
UserOptions(o) ==
  \/ \E v \in ToSet(o.env) : v.name \in {"JAVA_OPTS", "SOLR_OPTS"}
  \/ o.kind = "solr" /\ \E v \in o.solrOpts : IsStore(v)

\* setup-zk gets the user's options too, without the variables they may use.
UsersOwn(o, container) ==
  IF o.kind = "solr" /\ container.name = <<"setup-zk">> THEN o.solrOpts ELSE {}

\* Every variable that is used as $(NAME) is defined earlier in the list of its
\* container, also of an init container, except those of the user's own options in
\* setup-zk; and what ZooKeeper's ACLs, authentication, TLS and the user ask for
\* reaches the process: SOLR_OPTS and JAVA_OPTS end up behind what they use.
OptionsReachProcess ==
  (/\ generated # None /\ ~UserOptions(generated)
   /\ \A role \in Roles : PasswordsHaveStores(generated, role)) =>
    LET t == Generate(generated)
        optsVar == IF generated.kind = "solr" THEN "SOLR_OPTS" ELSE "JAVA_OPTS"
    IN  /\ \A c \in ToSet(Containers(t)) : \A i \in DOMAIN c.env :
             c.env[i].refs \ UsersOwn(generated, c) \subseteq {c.env[j].name : j \in 1..(i - 1)}
        /\ Needed(generated) # {} =>
             LastVar(t, optsVar) # 0 /\ Needed(generated) \subseteq t.env[LastVar(t, optsVar)].refs

\* What changes between two reconciliations that only saw edits of contents.
OnlyContentsEdited(o, p) ==
  /\ o # None /\ o.kind = p.kind
  /\ \A f \in DOMAIN o \ (Versions \cup Roles) : o[f] = p[f]
  /\ \A role \in Roles : o[role] = p[role] \/ [o[role] EXCEPT !.version = p[role].version] = p[role]

\* Does a pod with this template run with a ConfigMap of the user's?
MountsProvided(t, volume) ==
  \E v \in ToSet(t.volumes) : v.name = volume /\ "provided" \in v.holds

\* Both configurations of the exporter are given: the provided one is mounted, the
\* other one's checksum is in the annotation.
BothConfigs(o) == o.kind = "exporter" /\ o.specConfig /\ o.providedConfig

\* What the pods run with has changed in a way the user wants a restart for: a
\* certificate that is to be followed, the solr.xml or the configuration of the
\* exporter that is mounted, a log configuration that log4j does not reload by
\* itself, or the exporter's credentials.
RestartAsked(o, p) ==
  \/ \E role \in Roles : o[role] # p[role] /\ p[role].restart
  \/ /\ p.kind = "solr"
     /\ \/ MountsProvided(Generate(p), <<"solr-xml">>) /\ o.solrXmlVersion # p.solrXmlVersion
        \/ p.log = "restart" /\ o.logVersion # p.logVersion
  \/ /\ p.kind = "exporter"
     /\ \/ p.basicAuth /\ o.authVersion # p.authVersion
        \/ /\ ExporterConfigured(p)
           /\ IF MountsProvided(Generate(p), ExporterConfigVolume)
                THEN o.providedVersion # p.providedVersion ELSE o.specVersion # p.specVersion

\* When only the contents of secrets and ConfigMaps were edited, the pods are
\* replaced exactly if what they run with has changed and the user wants a restart
\* for it.  Not so for an exporter with both configurations: an edit of the
\* ConfigMap it runs with replaces nothing, an edit of the unused one does.
RestartsAsAsked ==
  [][(OnlyContentsEdited(generated, generated') /\ ~BothConfigs(generated')) =>
       ((Generate(generated) # Generate(generated')) <=> RestartAsked(generated, generated'))]_generated

=============================================================================
