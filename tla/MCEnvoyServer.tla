---------------------------- MODULE MCEnvoyServer ----------------------------
(* Files for EnvoyServer.                                                  *)
EXTENDS EnvoyServer

CONSTANTS web, db, plain

Web(body) == [type |-> Endpoint, name |-> web, body |-> body]
WebCluster == [type |-> Cluster, name |-> web, body |-> Reference]
DbCluster == [type |-> Cluster, name |-> db, body |-> plain]
Ingress(body) == [type |-> Listener, name |-> web, body |-> body]

MCFile ==
  { Failed,
    <<>>,
    <<WebCluster, Web(plain)>>,
    <<WebCluster, Web(plain), Ingress(plain), Web(Reference)>>,  \* a name twice
    <<WebCluster>>,                                              \* not consistent
    <<DbCluster, Ingress(Reference)>>,                           \* no routes
    <<DbCluster, [type |-> Unknown, name |-> db, body |-> plain]>> }
=============================================================================
