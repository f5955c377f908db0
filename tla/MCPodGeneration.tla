-------------------------- MODULE MCPodGeneration --------------------------
EXTENDS PodGeneration

\* Certificates from secrets: a certificate with or without keystores.
Contents == {{TLSCertKey, "tls.key"} \cup s : s \in SUBSET {DefaultPkcs12KeystoreFile, "other.p12",
                                                             DefaultPkcs12TruststoreFile}}

SecretOptions(keys, contents) ==
  [from : {"secret"}, contents : contents, key : keys, truststore : {"none", "same", "other"},
   truststoreKey : {DefaultPkcs12TruststoreFile, "other.p12"}, truststoreContents : {{DefaultPkcs12TruststoreFile, "other.p12"}},
   truststorePassword : BOOLEAN, restart : BOOLEAN, version : {0}, clientAuth : {FALSE}]

\* A truststore that is named is in the secret it is said to be in.
Secrets(keys, contents) ==
  {c \in SecretOptions(keys, contents) : c.truststore = "same" => c.truststoreKey \in c.contents}

Keystores == {DefaultPkcs12KeystoreFile}
UsualContents == {c \in Contents : "other.p12" \notin c}

Dirs(agents) ==
  [from : {"dir"}, agent : agents, keystoreFile : BOOLEAN, keystorePasswordFile : BOOLEAN, keystorePassword : BOOLEAN,
   truststoreFile : BOOLEAN, truststorePasswordFile : BOOLEAN, truststorePassword : BOOLEAN,
   clientAuth : {TRUE}, restart : {FALSE}, version : {0}]

Truststores ==
  [from : {"truststore"}, contents : {{}}, truststore : {"other"}, truststoreKey : {"other.p12"},
   truststoreContents : {{}, {"other.p12"}}, truststorePassword : {TRUE}, restart : BOOLEAN, version : {0}]

\* Certificates of server and client together vary less.
PairedSecrets ==
  {c \in Secrets(Keystores, UsualContents) :
     c.truststoreKey = DefaultPkcs12TruststoreFile /\ (c.truststore = "none" => ~c.truststorePassword)}
PairedDirs == {d \in Dirs({"all"}) : d.keystoreFile = d.truststoreFile /\ d.truststorePasswordFile = d.keystorePasswordFile}

Repo(name, kind, credentials) == [name |-> name, kind |-> kind, credentials |-> credentials]
RepoLists ==
  {<<>>, <<Repo("a", "volume", {}), Repo("b", "s3", {"file", "keys"})>>,
   <<Repo("a", "gcs", {"file"}), Repo("b", "volume", {})>>, <<Repo("a", "gcs", {}), Repo("b", "s3", {"keys"})>>}

UserVolume(name, path) == [name |-> <<name>>, path |-> path]
VolumeLists == {<<>>, <<UserVolume("custom", InitdbPath)>>, <<UserVolume("initdb", InitdbPath), UserVolume("custom", <<>>)>>}

SolrOptions(servers, clients, repos, volumes, others) ==
  [kind : {"solr"}, server : servers, client : clients, repos : repos, volumes : volumes,
   acls : IF others THEN {{}, {"all"}, {"all", "readOnly"}} ELSE {{"all"}}, zkOpts : IF others THEN BOOLEAN ELSE {FALSE},
   chroot : {TRUE}, solrOpts : IF others THEN {{}, {"MY_OPT", "ZK_HOST"}} ELSE {{"MY_OPT"}},
   env : {<<EnvVar("MY_OPT", {}, <<>>)>>}, persistent : IF others THEN BOOLEAN ELSE {TRUE},
   solrXml : IF others THEN {"generated", "provided"} ELSE {"provided"},
   log : IF others THEN {"none", "restart", "reload"} ELSE {"none"},
   securityJson : IF others THEN BOOLEAN ELSE {FALSE}, probesRequireAuth : IF others THEN BOOLEAN ELSE {TRUE},
   solrXmlVersion : {0}, logVersion : {0}]

ExporterOptions ==
  [kind : {"exporter"}, client : Secrets(Keystores, UsualContents) \cup Dirs({"main"}) \cup Truststores \cup {NoTLS},
   volumes : {<<>>}, acls : {{}, {"readOnly"}}, env : {<<>>}, specConfig : BOOLEAN, providedConfig : BOOLEAN,
   basicAuth : BOOLEAN, specVersion : {0}, providedVersion : {0}, authVersion : {0}]

\* Everything but TLS, then the certificates of Solr, then the exporter.
AllOptions ==
  SolrOptions({NoTLS}, {NoTLS}, RepoLists, {<<>>}, TRUE)
    \cup SolrOptions(Secrets({DefaultPkcs12KeystoreFile, "other.p12"}, Contents), {NoTLS}, {<<>>}, {<<>>}, FALSE)
    \cup SolrOptions(PairedSecrets, PairedSecrets, {<<>>}, {<<>>}, FALSE)
    \cup SolrOptions(Dirs({"main", "all"}), {NoTLS}, {<<>>}, VolumeLists, FALSE)
    \cup SolrOptions(PairedDirs, Dirs({"main", "all"}), {<<>>}, {<<>>}, FALSE)
    \cup ExporterOptions

=============================================================================
