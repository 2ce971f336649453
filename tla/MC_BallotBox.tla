----------------------------- MODULE MC_BallotBox -----------------------------
(* Four peers; the log removes d through joint consensus: {a,b,c,d}, then  *)
(* {a,b,c} with old {a,b,c,d}, then {a,b,c} alone.                         *)
EXTENDS BallotBox

CONSTANTS a, b, c, d

MCPeers == {a, b, c, d}
MCConfSeq == << [conf |-> {a, b, c, d}, old |-> {}],
                [conf |-> {a, b, c}, old |-> {a, b, c, d}],
                [conf |-> {a, b, c}, old |-> {}] >>
MCMaxIndex == 3
=============================================================================
