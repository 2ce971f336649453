---------------------------- MODULE MC_HttpMessage ----------------------------
(***************************************************************************)
(* HttpMessage with five body parts and a limit of one buffered part: the  *)
(* parse fiber can sleep in OnBody, SetBodyReader can drain twice and then *)
(* give up with parts left in _body, and a reader can fail on a flushed or *)
(* on a fresh part.  Three header callbacks allow a fragmented header.     *)
(***************************************************************************)
EXTENDS HttpMessage

MCNParts == 5
MCLimit == 1
MCMaxHeaderCalls == 3
=============================================================================
