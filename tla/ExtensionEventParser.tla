------------------------- MODULE ExtensionEventParser -------------------------
(***************************************************************************)
(* _ProcessExtensionEvents._parse_event_and_ensure_it_is_valid of           *)
(* azurelinuxagent/ga/collect_telemetry_events.py: the contract an event an  *)
(* extension writes must meet before it is enqueued.                       *)
(*                                                                         *)
(* An event is a function from the required fields it has to its values;  *)
(* fields outside _EXTENSION_EVENT_REQUIRED_FIELDS are dropped by the dict  *)
(* comprehension and are left out.  A value is None, an int, or a string   *)
(* given by its length after strip() and redact_sas_token.  The outcome is *)
(* "valid" or the error raised: one of the InvalidExtensionEventError      *)
(* kinds, or "Exception" for the TypeError/AttributeError the code does    *)
(* not anticipate.  A driver parses one event per behaviour.              *)
(***************************************************************************)
EXTENDS Naturals, Sequences, FiniteSets, Functions

CONSTANTS
  RequiredFields,  \* _EXTENSION_EVENT_REQUIRED_FIELDS: the schema's names, lower-cased, in dir() order
  MessageKey,      \* ExtensionEventSchema.Message.lower()
  IntFields,       \* EventPid, EventTid: the fields whose int value is turned into a string
  IntLen,          \* length of str(v) of such an int
  MaxEventSize,    \* _EXTENSION_EVENT_MAX_SIZE (6144), scaled down
  MaxMsgLen,       \* _EXTENSION_EVENT_MAX_MSG_LEN (3072), scaled down
  Events           \* the events an extension may write

ASSUME MessageKey \in Range(RequiredFields) /\ IntFields \subseteq Range(RequiredFields)

Str(n)  == [t |-> "str", len |-> n]
NoneVal == [t |-> "none", len |-> 0]
IntVal  == [t |-> "int", len |-> 0]

\* _clean_value raises AttributeError: v.strip() on an int of another field.
CleanRaises(e) == \E k \in DOMAIN e : e[k].t = "int" /\ k \notin IntFields

\* _clean_value: an int of EventPid/EventTid becomes str(v); None stays None.
clean_value(k, v) == IF v.t = "int" THEN Str(IntLen) ELSE v

\* The loop over the required fields: a missing field raises; the size of
\* the fields before the current one is compared with the limit, then the
\* current field's length is added (len(None) raises TypeError).
RECURSIVE check_fields(_, _, _)
check_fields(event, i, event_size) ==
  IF i > Len(RequiredFields) THEN "valid"
  ELSE LET k == RequiredFields[i] IN
       IF k \notin DOMAIN event THEN "MissingKeyError"
       ELSE IF event_size > MaxEventSize THEN "OversizeEventError"
       ELSE IF event[k].t = "none" THEN "Exception"
       ELSE check_fields(event, i + 1, event_size + event[k].len)

\* The cleaned event, its message cut to the first MaxMsgLen characters.
cleaned(e) ==
  LET ev == [k \in DOMAIN e |-> clean_value(k, e[k])]
  IN  IF MessageKey \in DOMAIN ev /\ ev[MessageKey].t = "str"
        THEN [ev EXCEPT ![MessageKey] = Str(IF @.len < MaxMsgLen THEN @.len ELSE MaxMsgLen)]
        ELSE ev

parse_event_and_ensure_it_is_valid(e) ==
  LET ev == cleaned(e) IN
  IF CleanRaises(e) THEN "Exception"
  ELSE IF MessageKey \notin DOMAIN ev THEN "MissingKeyError"
  ELSE IF ev[MessageKey].t = "none" THEN "Exception"          \* None[:n]
  ELSE IF ev[MessageKey].len = 0 THEN "EmptyMessageError"
  ELSE check_fields(ev, 1, 0)

-----------------------------------------------------------------------------
VARIABLES
  event,    \* the event read from the file
  outcome   \* what parsing it gives ("none" before the call)

vars == <<event, outcome>>

Init == event \in Events /\ outcome = "none"

\* _parse_telemetry_event calls _parse_event_and_ensure_it_is_valid.
ParseEvent ==
  /\ outcome = "none"
  /\ outcome' = parse_event_and_ensure_it_is_valid(event)
  /\ UNCHANGED event

Spec == Init /\ [][ParseEvent]_vars

-----------------------------------------------------------------------------
Outcomes == {"none", "valid", "MissingKeyError", "EmptyMessageError", "OversizeEventError",
             "Exception"}

TypeOK == event \in Events /\ outcome \in Outcomes

\* Total length of the fields of an event.
EventSize(ev) == SumFunction([k \in DOMAIN ev |-> ev[k].len])

\* An event accepted as valid is no larger than _EXTENSION_EVENT_MAX_SIZE,
\* "Limit for the whole event. Prevent oversized events."
EventSizeBounded ==
  outcome = "valid" => EventSize(cleaned(event)) <= MaxEventSize
=============================================================================
