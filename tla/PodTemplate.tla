---------------------------- MODULE PodTemplate ----------------------------
(***************************************************************************)
(* The pods the operator asks for: GenerateStatefulSet (solr_util.go) and  *)
(* GenerateSolrPrometheusExporterDeployment (prometheus_exporter_util.go), *)
(* with what TLS, authentication, backup repositories, a provided          *)
(* ConfigMap and ZooKeeper add to them.  A pod template is abstracted to   *)
(* its volumes and the files in them, what each container mounts, the      *)
(* environment in its order, the init containers with the files they read  *)
(* and write, and the annotations whose change restarts the pods.          *)
(*                                                                         *)
(* A volume's name and a path are sequences of their parts, and a file is  *)
(* a pair <<directory, name>>.  The value of an environment variable is a  *)
(* file, the place a password comes from, or left out; refs are the        *)
(* variables it uses with the $(NAME) syntax, which Kubernetes replaces    *)
(* only if NAME is defined earlier in the list.  Variables that nothing    *)
(* refers to, gates, probes and ports are left out.                        *)
(***************************************************************************)
EXTENDS Integers, FiniteSets, SequencesExt

EnvVar(name, refs, value) == [name |-> name, refs |-> refs, value |-> value]
Plain(names) == [i \in DOMAIN names |-> EnvVar(names[i], {}, <<>>)]
Only(condition, seq) == IF condition THEN seq ELSE <<>>

Volume(name, holds) == [name |-> name, holds |-> holds]
Mount(volume, path) == [volume |-> volume, path |-> path]

InitContainer(name, mounts, env, reads, writes) ==
  [name |-> name, mounts |-> mounts, env |-> env, reads |-> reads, writes |-> writes]

-----------------------------------------------------------------------------
(* ZooKeeper: zk_util.go, createZkConnectionEnvVars.                       *)

\* acls: which of the two ACL secrets, "all" and "readOnly", are given.
AddACLsToEnv(acls) ==
  LET all == Only("all" \in acls, <<"ZK_ALL_ACL_USERNAME", "ZK_ALL_ACL_PASSWORD">>)
      readOnly == Only("readOnly" \in acls, <<"ZK_READ_ACL_USERNAME", "ZK_READ_ACL_PASSWORD">>)
  IN  Only(acls # {},
           Plain(all \o readOnly)
             \o <<EnvVar("SOLR_ZK_CREDS_AND_ACLS", ToSet(all \o readOnly), <<>>)>>)

CreateZkConnectionEnvVars(o) ==
  Plain(<<"ZK_HOST", "ZK_CHROOT", "ZK_SERVER">>) \o AddACLsToEnv(o.acls)
    \o Only(o.zkOpts, Plain(<<"SOLR_ZK_OPTS">>))

\* The variables the ZooKeeper part of SOLR_OPTS uses.
ZkSolrOpt(o) == (IF o.acls # {} THEN {"SOLR_ZK_CREDS_AND_ACLS"} ELSE {})
                  \cup (IF o.zkOpts THEN {"SOLR_ZK_OPTS"} ELSE {})

-----------------------------------------------------------------------------
(* Backup repositories: solr_backup_repo_util.go.                          *)
(* A repository is a volume, or a bucket of GCS or S3 with credentials     *)
(* from a secret: a file, or (S3) variables.                               *)

RepoVolumeName(repo) == <<"backup-repository-", repo.name>>
VolumeRepoVolumeMountPath(repo) == <<"/var/solr/data/backup-restore", repo.name>>

IsRepoVolume(repo) == repo.kind = "volume"

HasRepoVolume(repo) == IsRepoVolume(repo) \/ "file" \in repo.credentials

\* GcsRepoSecretMountPath, S3RepoSecretMountPath.
RepoSecretMountPath(repo) ==
  VolumeRepoVolumeMountPath(repo)
    \o <<IF repo.kind = "gcs" THEN "gcscredential" ELSE "s3credential">>

RepoMountPath(repo) ==
  IF IsRepoVolume(repo) THEN VolumeRepoVolumeMountPath(repo) ELSE RepoSecretMountPath(repo)

RepoCredentialFile(repo) ==
  IF repo.kind = "gcs" THEN "service-account-key.json" ELSE "credentials"

RepoVolumeSource(repo) ==
  Volume(RepoVolumeName(repo),
         IF IsRepoVolume(repo) THEN {} ELSE {RepoCredentialFile(repo)})

RepoVolumeMount(repo) == Mount(RepoVolumeName(repo), RepoMountPath(repo))

RepoEnvVars(repo) ==
  Only(repo.kind = "s3",
       Only("keys" \in repo.credentials,
            Plain(<<"AWS_ACCESS_KEY_ID", "AWS_SECRET_ACCESS_KEY", "AWS_SESSION_TOKEN">>))
         \o Only("file" \in repo.credentials,
                 <<EnvVar("AWS_SHARED_CREDENTIALS_FILE", {},
                          <<RepoMountPath(repo), RepoCredentialFile(repo)>>)>>))

\* RepoXML: the files the repository sections of solr.xml name.
RepoXML(repo) ==
  IF repo.kind = "gcs" /\ "file" \in repo.credentials
    THEN {<<RepoMountPath(repo), RepoCredentialFile(repo)>>} ELSE {}

-----------------------------------------------------------------------------
(* TLS: solr_tls_util.go.  Certificates come from a secret, which may hold *)
(* a keystore or only a certificate to convert, or from a directory that   *)
(* an external agent mounts ("dir"), in the main container or in the init  *)
(* containers too; the exporter may have a truststore only.  A role is     *)
(* "server", "client" or, for the exporter, "exporter".                    *)

DefaultPkcs12KeystoreFile == "keystore.p12"
DefaultPkcs12TruststoreFile == "truststore.p12"
TLSCertKey == "tls.crt"
DefaultKeyStorePath == <<"/var/solr/tls">>
DefaultWritableKeyStorePath == <<"/var/solr/tls", "pkcs12">>
InitdbPath == <<"/docker-entrypoint-initdb.d">>

NoTLS == [from |-> "none"]

KeystorePath(role) == IF role = "client" THEN <<"/var/solr/client-tls">> ELSE DefaultKeyStorePath
TruststorePath(role) ==
  IF role = "client" THEN <<"/var/solr/client-tls-truststore">> ELSE <<"/var/solr/tls-truststore">>

\* Mutant: the volumes of the client certificate have the server's names.
VolumeNameMutant(role, baseName) == <<baseName>>

VolumeName(role, baseName) == IF role = "client" THEN <<"client-", baseName>> ELSE <<baseName>>

\* VerifyKeystoreAndTruststoreSecretConfig, VerifyTruststoreOnly: are the
\* secrets as the options say?  (saveCertMd5 wants the certificate.)
Verified(c) ==
  /\ c.from = "secret" => (c.restart => TLSCertKey \in c.contents)
  /\ c.from = "truststore" => c.truststoreKey \in c.truststoreContents

NeedsPkcs12InitContainer(c) == c.from = "secret" /\ c.key \notin c.contents

\* Where the truststore is: in another secret, in the keystore's (given, or
\* found there by VerifyKeystoreAndTruststoreSecretConfig), or nowhere.
TrustStoreSecret(c) ==
  IF c.truststore = "none" /\ DefaultPkcs12TruststoreFile \in c.contents THEN "same"
  ELSE c.truststore

VolumesAndMounts(role, c) ==
  LET keystore == Only(c.from = "secret", <<VolumeName(role, "keystore")>>)
      truststore == Only(TrustStoreSecret(c) = "other", <<VolumeName(role, "truststore")>>)
      holds(name) == IF Last(name) = "truststore" THEN c.truststoreContents ELSE c.contents
      path(name) == IF Last(name) = "truststore" THEN TruststorePath(role) ELSE KeystorePath(role)
      names == keystore \o truststore
  IN  [volumes |-> [i \in DOMAIN names |-> Volume(names[i], holds(names[i]))],
       mounts  |-> [i \in DOMAIN names |-> Mount(names[i], path(names[i]))]]

\* Mutant: the converted keystore is looked for beside the certificate.
KeystoreFileMutant(role, c) == <<KeystorePath(role), DefaultPkcs12KeystoreFile>>

KeystoreFile(role, c) ==
  <<IF NeedsPkcs12InitContainer(c) THEN DefaultWritableKeyStorePath ELSE KeystorePath(role),
    DefaultPkcs12KeystoreFile>>

PasswordOf(var) ==
  CASE var = "SOLR_SSL_KEY_STORE"          -> "SOLR_SSL_KEY_STORE_PASSWORD"
    [] var = "SOLR_SSL_TRUST_STORE"        -> "SOLR_SSL_TRUST_STORE_PASSWORD"
    [] var = "SOLR_SSL_CLIENT_KEY_STORE"   -> "SOLR_SSL_CLIENT_KEY_STORE_PASSWORD"
    [] var = "SOLR_SSL_CLIENT_TRUST_STORE" -> "SOLR_SSL_CLIENT_TRUST_STORE_PASSWORD"

Store(var, file, password) == <<EnvVar(var, {}, file), EnvVar(PasswordOf(var), {}, password)>>

KeystoreEnvVars(role, c, var) ==
  Store(var, KeystoreFile(role, c), <<"secret", role, "keystore-password">>)

TruststoreEnvVars(role, c, var) ==
  LET file == CASE TrustStoreSecret(c) = "other" -> <<TruststorePath(role), c.truststoreKey>>
                [] TrustStoreSecret(c) = "same"  -> <<KeystorePath(role), DefaultPkcs12TruststoreFile>>
                [] TrustStoreSecret(c) = "none"  -> KeystoreFile(role, c)
  IN  Store(var, file, <<"secret", role, IF c.truststorePassword THEN "truststore-password"
                                                               ELSE "keystore-password">>)

\* mountedTLSKeystorePath and its like: a name that is not given has a default.
MountedTLSPath(role, name) == <<<<"tls-dir-of", role>>, name>>

KeystorePasswordInFile(c) == c.keystorePasswordFile \/ ~c.keystorePassword
HasPasswordsInFiles(c) ==
  c.from = "dir" /\ (KeystorePasswordInFile(c) \/ c.truststorePasswordFile)

\* The places of the passwords of a mounted directory.
Inline(role, name) == <<"inline", role, name>>
InFile(role, name) == <<"file", role, name>>
Nothing == <<>>

\* The SOLR_SSL_* variables of a mounted directory.  The server always has a
\* keystore; a client's truststore may stand alone.
MountedDirEnvVars(role, c, key, trust) ==
  LET hasKeystore == role = "server" \/ c.keystoreFile
      inlineKey == hasKeystore /\ ~KeystorePasswordInFile(c)
      inlineTrust == ~c.truststorePasswordFile /\ (c.truststorePassword \/ inlineKey)
      keyPassword == Inline(role, "keystore-password")
      trustPassword == IF c.truststorePassword THEN Inline(role, "truststore-password") ELSE keyPassword
      keystore == MountedTLSPath(role, DefaultPkcs12KeystoreFile)
  IN  Only(hasKeystore, <<EnvVar(key, {}, keystore)>>)
      \o Only(inlineKey, <<EnvVar(PasswordOf(key), {}, keyPassword)>>)
      \o IF c.truststoreFile
           THEN <<EnvVar(trust, {}, MountedTLSPath(role, DefaultPkcs12TruststoreFile))>>
                \o Only(inlineTrust, <<EnvVar(PasswordOf(trust), {}, trustPassword)>>)
           ELSE IF role = "server"
             THEN <<EnvVar(trust, {}, keystore)>>
                  \o Only(inlineKey, <<EnvVar(PasswordOf(trust), {}, keyPassword)>>)
             ELSE Only(hasKeystore,
                       <<EnvVar(trust, {key}, keystore),
                         EnvVar(PasswordOf(trust), {}, IF inlineKey THEN keyPassword ELSE <<>>)>>)

ServerEnvVars(c) ==
  IF c.from = "dir"
    THEN MountedDirEnvVars("server", c, "SOLR_SSL_KEY_STORE", "SOLR_SSL_TRUST_STORE")
    ELSE KeystoreEnvVars("server", c, "SOLR_SSL_KEY_STORE")
           \o TruststoreEnvVars("server", c, "SOLR_SSL_TRUST_STORE")

ClientEnvVars(role, c) ==
  LET key == "SOLR_SSL_CLIENT_KEY_STORE"
      trust == "SOLR_SSL_CLIENT_TRUST_STORE"
  IN  IF c.from = "dir" THEN MountedDirEnvVars(role, c, key, trust)
      ELSE Only(c.from = "secret", KeystoreEnvVars(role, c, key))
             \o IF TrustStoreSecret(c) = "none" THEN KeystoreEnvVars(role, c, trust)
                                                ELSE TruststoreEnvVars(role, c, trust)

\* generatePkcs12InitContainer: it reads the server's path, whatever the role.
GeneratePkcs12InitContainer(role, mounts) ==
  InitContainer(<<"gen-pkcs12-keystore">>, mounts, Plain(<<"SOLR_SSL_KEY_STORE_PASSWORD">>),
    {<<DefaultKeyStorePath, TLSCertKey>>, <<DefaultKeyStorePath, "tls.key">>},
    {<<DefaultWritableKeyStorePath, DefaultPkcs12KeystoreFile>>})

\* Mutant: the certificate is tracked whether or not the user asked for it.
TracksCertMutant(c) == TRUE

\* Only if asked is a renewed certificate a reason to restart the pods.
TracksCert(c) == c.restart

MountTLSSecretOnPodTemplate(t, role, c) ==
  LET vm == VolumesAndMounts(role, c)
      convert == NeedsPkcs12InitContainer(c)
      mounts == vm.mounts \o Only(convert, <<Mount(<<"pkcs12">>, DefaultWritableKeyStorePath)>>)
  IN  [t EXCEPT !.volumes = @ \o vm.volumes \o Only(convert, <<Volume(<<"pkcs12">>, {})>>),
                !.mounts = @ \o mounts,
                !.inits = @ \o Only(convert, <<GeneratePkcs12InitContainer(role, mounts)>>),
                !.annotations = @ \cup IF TracksCert(c) THEN {<<"certMd5", role, c.version>>} ELSE {}]

\* mountInitDbIfNeeded: the directory of scripts that run before Solr starts.
MountInitDbIfNeeded(t) ==
  IF \E m \in ToSet(t.mounts) : m.path = InitdbPath THEN t
  ELSE [t EXCEPT !.volumes = Append(@, Volume(<<"initdb">>, {})),
                 !.mounts = Append(@, Mount(<<"initdb">>, InitdbPath))]

Export(var, place) == [name |-> var, value |-> place]

\* exportVarFromFileInInitdbWrapperScript: the quotes around $(cat ...) and
\* ${...} close those of the echo, so that both are expanded in the init container
\* that writes the script, not when Solr runs it.  A file that is not mounted
\* there, and a variable that is not set there, are empty.
ExpandedInInit(c, role, name) == IF c.agent = "all" THEN InFile(role, name) ELSE Nothing

\* Mutant: a truststore password that is given does not stop the export.
ExportsMutant(role, c, key, trust) ==
  Only(KeystorePasswordInFile(c),
       <<Export(PasswordOf(key), ExpandedInInit(c, role, "keystore-password"))>>)
    \o <<Export(PasswordOf(trust), IF c.truststorePasswordFile
                                     THEN ExpandedInInit(c, role, "truststore-password") ELSE Nothing)>>

\* What the script in the initdb directory exports before Solr starts.
Exports(role, c, key, trust) ==
  Only(KeystorePasswordInFile(c),
       <<Export(PasswordOf(key), ExpandedInInit(c, role, "keystore-password"))>>)
    \o IF c.truststorePasswordFile
         THEN <<Export(PasswordOf(trust), ExpandedInInit(c, role, "truststore-password"))>>
         ELSE Only(KeystorePasswordInFile(c) /\ ~c.truststorePassword,
                   <<Export(PasswordOf(trust), Nothing)>>)

\* The files that the command of the init container reads.
PasswordFiles(role, c) ==
  IF c.from # "dir" THEN {}
  ELSE {MountedTLSPath(role, name) : name \in
          (IF KeystorePasswordInFile(c) THEN {"keystore-password"} ELSE {})
            \cup (IF c.truststorePasswordFile THEN {"truststore-password"} ELSE {})}

GenerateTLSInitdbScript(t, server, client) ==
  LET script == <<InitdbPath, "export-tls-vars.sh">>
  IN  [t EXCEPT
         !.inits = Append(@, InitContainer(<<"generate-init-db">>, <<Mount(<<"initdb">>, InitdbPath)>>, <<>>,
                               PasswordFiles("server", server) \cup PasswordFiles("client", client),
                               {script})),
         !.files = @ \cup {script},
         !.exported = Only(server.from = "dir",
                           Exports("server", server, "SOLR_SSL_KEY_STORE", "SOLR_SSL_TRUST_STORE"))
                      \o Only(client.from = "dir",
                              Exports("client", client,
                                      "SOLR_SSL_CLIENT_KEY_STORE", "SOLR_SSL_CLIENT_TRUST_STORE"))]

EnableTLSOnSolrCloudStatefulSet(t, server, client) ==
  LET withEnv == [t EXCEPT !.env = @ \o ServerEnvVars(server)
                                     \o Only(client # NoTLS, ClientEnvVars("client", client))]
      withServer == MountTLSSecretOnPodTemplate(withEnv, "server", server)
  IN  IF server.from = "secret"
        THEN IF client.from = "secret" THEN MountTLSSecretOnPodTemplate(withServer, "client", client)
                                       ELSE withServer
        ELSE IF HasPasswordsInFiles(server) \/ HasPasswordsInFiles(client)
          THEN GenerateTLSInitdbScript(MountInitDbIfNeeded(withEnv), server, client)
          ELSE withEnv

\* clientJavaOpts: the variables the exporter's options use.
ClientJavaOpts(c) ==
  LET keystore == c.from = "secret" \/ (c.from = "dir" /\ c.keystoreFile)
      keyPassword == c.from = "secret" \/ (c.from = "dir" /\ ~KeystorePasswordInFile(c))
      trustPassword == \/ c.from \in {"secret", "truststore"}
                       \/ /\ c.from = "dir" /\ ~c.truststorePasswordFile
                          /\ c.truststorePassword \/ keyPassword
  IN  {"SOLR_SSL_CHECK_PEER_NAME", "SOLR_SSL_CLIENT_TRUST_STORE"}
        \cup (IF keystore THEN {"SOLR_SSL_CLIENT_KEY_STORE"} ELSE {})
        \cup (IF keyPassword THEN {"SOLR_SSL_CLIENT_KEY_STORE_PASSWORD"} ELSE {})
        \cup (IF trustPassword THEN {"SOLR_SSL_CLIENT_TRUST_STORE_PASSWORD"} ELSE {})

\* Mutant: JAVA_OPTS stays where it is.
AppendJavaOptsToEnvMutant(env, refs) ==
  IF \E i \in DOMAIN env : env[i].name = "JAVA_OPTS"
    THEN [i \in DOMAIN env |-> IF env[i].name = "JAVA_OPTS" THEN [env[i] EXCEPT !.refs = @ \cup refs]
                                                            ELSE env[i]]
    ELSE Append(env, EnvVar("JAVA_OPTS", refs, <<>>))

\* The first JAVA_OPTS, or none, with more options, moved to the end.
AppendJavaOptsToEnv(env, refs) ==
  LET at == SelectInSeq(env, LAMBDA v : v.name = "JAVA_OPTS")
  IN  IF at = 0 THEN Append(env, EnvVar("JAVA_OPTS", refs, <<>>))
      ELSE Append(RemoveAt(env, at), [env[at] EXCEPT !.refs = @ \cup refs])

\* mountTLSWrapperScriptAndInitContainer: the exporter is started by a script
\* that sets the passwords it reads from files.
MountTLSWrapperScript(t, c) ==
  LET path == <<"/usr/local/solr-exporter-tls">>
      script == <<path, "launch-exporter-with-tls.sh">>
      volume == <<"tls-wrapper-script">>
      keyFile == InFile("exporter", "keystore-password")
      key == c.keystoreFile /\ KeystorePasswordInFile(c)
      trust == CASE c.truststorePasswordFile -> <<InFile("exporter", "truststore-password")>>
                 [] ~c.truststorePasswordFile /\ ~c.truststorePassword -> <<keyFile>>
                 [] ~c.truststorePasswordFile /\ c.truststorePassword  -> Only(key, <<keyFile>>)
      set == Only(key, <<Export("SOLR_SSL_CLIENT_KEY_STORE_PASSWORD", keyFile)>>)
             \o [i \in DOMAIN trust |-> Export("SOLR_SSL_CLIENT_TRUST_STORE_PASSWORD", trust[i])]
  IN  [t EXCEPT !.volumes = Append(@, Volume(volume, {})),
                !.mounts = Append(@, Mount(volume, path)),
                !.inits = Append(@, InitContainer(<<"create-tls-wrapper-script">>, <<Mount(volume, path)>>,
                                                  <<>>, {}, {script})),
                !.files = @ \cup {script},
                !.exported = set]

EnableTLSOnExporterDeployment(t, c) ==
  LET env == t.env \o ClientEnvVars("exporter", c) \o Plain(<<"SOLR_SSL_CHECK_PEER_NAME">>)
      withEnv == [t EXCEPT !.env = AppendJavaOptsToEnv(env, ClientJavaOpts(c))]
  IN  IF c.from \in {"secret", "truststore"}
        THEN MountTLSSecretOnPodTemplate(withEnv, "exporter", c)
        ELSE IF HasPasswordsInFiles(c) THEN MountTLSWrapperScript(withEnv, c) ELSE withEnv

-----------------------------------------------------------------------------
(* The Solr pods: solr_util.go, solr_security_util.go.                     *)

\* generateZKInteractionInitContainer
GenerateZKInteractionInitContainer(o) ==
  LET refs == ZkSolrOpt(o) \cup o.solrOpts
      opts == Only(ZkSolrOpt(o) # {} \/ o.solrOpts # {},
                   <<EnvVar("SOLR_OPTS", refs, <<>>), EnvVar("SOLR_TOOL_OPTS", refs, <<>>)>>)
      json == Only(o.securityJson, Plain(<<"SECURITY_JSON">>))
  IN  Only(o.chroot \/ o.server # NoTLS \/ o.securityJson,
           <<InitContainer(<<"setup-zk">>, <<Mount(<<"tmp">>, <<"/tmp">>)>>,
                           CreateZkConnectionEnvVars(o) \o opts \o json, {}, {})>>)

GenerateSolrSetupInitContainers(o) ==
  LET volumes == SelectSeq(o.repos, IsRepoVolume)
  IN  Only(volumes # <<>>,
           <<InitContainer(<<"volume-prep">>,
                           [i \in DOMAIN volumes |-> RepoVolumeMount(volumes[i])], <<>>, {}, {})>>)
      \o GenerateZKInteractionInitContainer(o)

\* setupVolumeMountForUserProvidedConfigMapEntry, for the log configuration: a
\* volume of its own, or an item more of the volume with the user's solr.xml.
SetupVolumeMountForUserProvidedConfigMapEntry(t) ==
  LET path == <<"/var/solr", "provided-config-map">>
      shared == \E v \in ToSet(t.volumes) : v.name = <<"solr-xml">> /\ "provided" \in v.holds
      volume == IF shared THEN <<"solr-xml">> ELSE <<"log4j2-xml">>
      added == [i \in DOMAIN t.volumes |->
                  IF t.volumes[i].name = volume
                    THEN [t.volumes[i] EXCEPT !.holds = @ \cup {"log4j2.xml"}] ELSE t.volumes[i]]
  IN  [t EXCEPT !.volumes = IF shared THEN added ELSE Append(@, Volume(volume, {"log4j2.xml"})),
                !.mounts = Append(@, Mount(volume, path)),
                !.env = Append(@, EnvVar("LOG4J_PROPS", {}, <<path, "log4j2.xml">>))]

\* What the user's configuration adds, of which log4j reloads a file with a
\* monitorInterval by itself, and annotations that follow the rest.
ConfigAnnotations(o) ==
  (IF o.solrXml = "provided" THEN {<<"solrXmlMd5", "provided", o.solrXmlVersion>>}
                             ELSE {<<"solrXmlMd5", "generated", o.repos>>})
    \cup (IF o.log = "restart" THEN {<<"logXmlMd5", "provided", o.logVersion>>} ELSE {})

\* enableSecureProbesOnSolrCloudStatefulSet: the probes run a command with the
\* credentials of a mounted secret.
EnableSecureProbes(t, o) ==
  LET volume == <<"basic-auth-secret">>
      path == <<"/etc/secrets", "basic-auth-secret">>
      auth == o.probesRequireAuth
  IN  [t EXCEPT !.volumes = @ \o Only(auth, <<Volume(volume, {"username", "password"})>>),
                !.mounts = @ \o Only(auth, <<Mount(volume, path)>>),
                !.files = @ \cup IF auth THEN {<<path, "username">>, <<path, "password">>} ELSE {}]

BaseEnv == Plain(<<"SOLR_NODE_PORT", "POD_NAME">>) \o <<EnvVar("SOLR_HOST", {"POD_NAME"}, <<>>)>>

UserMounts(o) ==
  LET mounted == SelectSeq(o.volumes, LAMBDA v : v.path # <<>>)
  IN  [i \in DOMAIN mounted |-> Mount(mounted[i].name, mounted[i].path)]

\* The volumes of the pod: solr.xml from its ConfigMap, the data unless it is in
\* a claim of the StatefulSet, the repositories and what the user adds.
SolrVolumes(o) ==
  LET solrXml == {"solr.xml"} \cup IF o.solrXml = "provided" THEN {"provided"} ELSE {}
      withVolume == SelectSeq(o.repos, HasRepoVolume)
  IN  <<Volume(<<"solr-xml">>, solrXml), Volume(<<"tmp">>, {})>>
        \o Only(~o.persistent, <<Volume(<<"data">>, {})>>)
        \o [i \in DOMAIN withVolume |-> RepoVolumeSource(withVolume[i])]
        \o [i \in DOMAIN o.volumes |-> Volume(o.volumes[i].name, {})]

SolrMounts(o) ==
  LET withVolume == SelectSeq(o.repos, HasRepoVolume)
  IN  <<Mount(<<"data">>, <<"/var/solr/data">>), Mount(<<"solr-xml">>, <<"/var/solr/data", "solr.xml">>)>>
        \o [i \in DOMAIN withVolume |-> RepoVolumeMount(withVolume[i])]
        \o UserMounts(o)

SolrEnv(o) ==
  BaseEnv \o CreateZkConnectionEnvVars(o)
    \o FlattenSeq([i \in DOMAIN o.repos |-> RepoEnvVars(o.repos[i])]) \o o.env

\* The part of GenerateStatefulSet that does not depend on TLS; SOLR_OPTS uses
\* the variables before it.
SolrPod(o) ==
  LET repoFiles == UNION {RepoXML(r) : r \in ToSet(o.repos)}
      t == [volumes |-> SolrVolumes(o),
            claims |-> IF o.persistent THEN {<<"data">>} ELSE {},
            mounts |-> SolrMounts(o),
            env |-> SolrEnv(o),
            inits |-> GenerateSolrSetupInitContainers(o),
            files |-> {<<<<"/var/solr/data", "solr.xml">>, "solr.xml">>}
                        \cup IF o.solrXml = "generated" THEN repoFiles ELSE {},
            exported |-> <<>>,
            annotations |-> ConfigAnnotations(o)
                              \cup {<<"backupRepositories", r.name>> : r \in ToSet(o.repos)}]
      u == IF o.log = "none" THEN t ELSE SetupVolumeMountForUserProvidedConfigMapEntry(t)
  IN  [u EXCEPT !.env = Append(@, EnvVar("SOLR_OPTS", {"SOLR_NODE_PORT"} \cup ZkSolrOpt(o) \cup o.solrOpts,
                                         <<>>))]

GenerateStatefulSet(o) ==
  LET t == IF o.server = NoTLS THEN SolrPod(o)
           ELSE EnableTLSOnSolrCloudStatefulSet(SolrPod(o), o.server, o.client)
      clientAuth == o.server # NoTLS /\ o.server.clientAuth
  IN  IF o.probesRequireAuth \/ clientAuth THEN EnableSecureProbes(t, o) ELSE t

\* reconcileTLSConfig (solrcloud_controller.go), for options that name one
\* source: both certificates come from secrets or both from directories.
ReconcileTLSConfig(o) ==
  IF o.server = NoTLS THEN o.client = NoTLS
  ELSE Verified(o.server) /\ (o.client # NoTLS => o.client.from = o.server.from /\ Verified(o.client))

-----------------------------------------------------------------------------
(* The exporter: prometheus_exporter_util.go.                              *)

ExporterConfigured(o) == o.specConfig \/ o.providedConfig
ExporterConfigVolume == <<"solr-prometheus-exporter-xml">>
ExporterConfigFile == <<<<"/opt/solr-exporter">>, "solr-prometheus-exporter.xml">>

\* A provided ConfigMap is mounted rather than the one made of the specification.
ExporterVolumes(o) ==
  Only(ExporterConfigured(o),
       <<Volume(ExporterConfigVolume,
                {ExporterConfigFile[2]} \cup IF o.providedConfig THEN {"provided"} ELSE {})>>)
    \o [i \in DOMAIN o.volumes |-> Volume(o.volumes[i].name, {})]

\* JAVA_OPTS uses the variables before it, also those the user adds.
ExporterEnv(o) ==
  LET auth == Only(o.basicAuth, Plain(<<"BASIC_AUTH_USER", "BASIC_AUTH_PASS">>))
      opts == (IF o.acls # {} THEN {"SOLR_ZK_CREDS_AND_ACLS"} ELSE {}) \cup {v.name : v \in ToSet(auth)}
      config == EnvVar("CONFIG_FILE", {}, IF ExporterConfigured(o) THEN ExporterConfigFile ELSE <<>>)
  IN  AddACLsToEnv(o.acls) \o <<config>> \o o.env \o auth
        \o Only(opts # {}, <<EnvVar("JAVA_OPTS", opts, <<>>)>>)

\* The checksum is of the configuration in the specification when there is one,
\* also when a provided one is mounted.
ExporterAnnotations(o) ==
  (IF o.specConfig THEN {<<"configXmlMd5", "spec", o.specVersion>>}
   ELSE IF o.providedConfig THEN {<<"configXmlMd5", "provided", o.providedVersion>>} ELSE {})
    \cup (IF o.basicAuth THEN {<<"basicAuthMd5", "", o.authVersion>>} ELSE {})

GenerateSolrPrometheusExporterDeployment(o) ==
  LET t == [volumes |-> ExporterVolumes(o), claims |-> {},
            mounts |-> Only(ExporterConfigured(o),
                            <<Mount(ExporterConfigVolume, ExporterConfigFile[1])>>) \o UserMounts(o),
            env |-> ExporterEnv(o),
            inits |-> <<>>, files |-> {}, exported |-> <<>>,
            annotations |-> ExporterAnnotations(o)]
  IN  IF o.client = NoTLS THEN t ELSE EnableTLSOnExporterDeployment(t, o.client)

Generate(o) ==
  IF o.kind = "solr" THEN GenerateStatefulSet(o) ELSE GenerateSolrPrometheusExporterDeployment(o)

\* reconcileTLSConfig (solrprometheusexporter_controller.go), likewise.
ExporterReconcileTLSConfig(o) ==
  o.client # NoTLS =>
    Verified(o.client) /\ (o.client.from = "dir" => o.client.keystoreFile \/ o.client.truststoreFile)

Accepted(o) == IF o.kind = "solr" THEN ReconcileTLSConfig(o) ELSE ExporterReconcileTLSConfig(o)

=============================================================================
