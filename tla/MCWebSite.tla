----------------------------- MODULE MCWebSite ------------------------------
(***************************************************************************)
(* WebSite with two sessions of one origin in two processes: the first one  *)
(* executes actions and its page sends a request, the page of the second    *)
(* one sends a request.                                                     *)
(***************************************************************************)
EXTENDS WebSite

CONSTANTS s1, s2, a1, a2, r1, o

OneOrigin == [s \in Sessions |-> o]
FirstActs == [s \in Sessions |-> IF s = s1 THEN Attempts ELSE {}]
BothAsk == [s \in Sessions |-> Requests]
=============================================================================
