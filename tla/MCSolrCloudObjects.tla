------------------------- MODULE MCSolrCloudObjects -------------------------
EXTENDS SolrCloudObjects

Plain ==
  [complete |-> TRUE, zk |-> "info", method |-> "none", hideCommon |-> FALSE,
   hideNodes |-> FALSE, useExternal |-> FALSE, config |-> "generated", xml |-> 1,
   security |-> "none", tls |-> "none", restartOnTLS |-> FALSE,
   schedule |-> "none", pdb |-> FALSE]

\* The ways to expose the nodes, with a service for each or not.
Addresses ==
  {[Plain EXCEPT !.method = m, !.hideNodes = h, !.useExternal = e, !.hideCommon = c] :
     <<m, h, e, c>> \in {<<"Ingress", FALSE, TRUE, TRUE>>, <<"Ingress", TRUE, TRUE, FALSE>>,
                         <<"LoadBalancer", FALSE, FALSE, FALSE>>}}

\* With an Ingress, for the nodes or not, and without.
Exposures ==
  {Plain, [Plain EXCEPT !.method = "Ingress"],
   [Plain EXCEPT !.method = "Ingress", !.hideNodes = TRUE]}

\* Generated and provided configuration, and the disruption budget.
Configurations ==
  {Plain, [Plain EXCEPT !.config = "provided", !.complete = FALSE],
   [Plain EXCEPT !.xml = 2, !.pdb = TRUE, !.method = "ExternalDNS", !.useExternal = TRUE]}

\* Security, with ZooKeeper becoming known later.
Securities ==
  {[Plain EXCEPT !.security = s, !.zk = z] :
     <<s, z>> \in {<<"bootstrap", "hostless">>, <<"bootstrap", "provided">>,
                   <<"user", "info">>, <<"none", "none">>}}

\* TLS.
Certificates ==
  {[Plain EXCEPT !.zk = "provided"], [Plain EXCEPT !.tls = "server"],
   [Plain EXCEPT !.tls = "server", !.restartOnTLS = TRUE],
   [Plain EXCEPT !.tls = "clientOnly"]}

\* Restart schedules.
Schedules ==
  {[Plain EXCEPT !.pdb = TRUE, !.schedule = s] : s \in {"cron", "invalid"}}

\* An older version of the operator started the pods.
OldInstallations == {Plain}

AllFamilies == {Addresses, Exposures, Configurations, Securities, Certificates, Schedules}

=============================================================================
