----------------------- MODULE MC_ConsulNamingService -----------------------
(* Two servers and answers of up to two entries, so an answer can repeat a *)
(* server, mix it with an invalid entry, or be all invalid.  Consul's      *)
(* index moves twice.  The backup file lists one of the servers.           *)
EXTENDS ConsulNamingService

CONSTANTS n1, n2

MCNodes == {n1, n2}
MCMaxLen == 2
MCMaxIndex == 3
MCFileServers == <<n2>>
=============================================================================
