---------------------------- MODULE MC_FileWatch ----------------------------
(* Instantiates FileWatch for TLC.  Model values stand for two            *)
(* containers, the runtime-added file /etc/hosts, /etc/passwd, two         *)
(* processes, a customer filter kc on /etc/passwd and a default filter kd  *)
(* over every file.  Each run's cfg picks the subsets it needs.            *)
EXTENDS FileWatch

CONSTANTS c1, c2, hosts, passwd, p1, p2, kc, kd

\* the paths each filter matches, restricted to the files of the run
MCMatch == (kc :> ({passwd} \cap Files)) @@ (kd :> Files)

\* the access-rule confs of the customer filter: nobody allowed, or p1
MCConfs == {(kc :> {}), (kc :> {p1})}

\* one conf only: the filter exists and allows nobody
MCConfs1 == {(kc :> {})}
=============================================================================
