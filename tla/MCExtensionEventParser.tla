------------------------ MODULE MCExtensionEventParser ------------------------
(* Three of the schema's fields, in the order dir() lists them: an int     *)
(* field (EventPid), the message, and the last field (Version).  Limits    *)
(* keep the code's ratio: the message may fill two thirds of the event.   *)
(* Every event with each field absent, None, an int or a string of 0..4   *)
(* characters.                                                             *)
EXTENDS ExtensionEventParser

MCRequiredFields == << "eventpid", "message", "version" >>

Values == {NoneVal, IntVal} \cup {Str(n) : n \in 0..4}

MCEvents == UNION {[S -> Values] : S \in SUBSET {"eventpid", "message", "version"}}
=============================================================================
