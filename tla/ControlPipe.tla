----------------------------- MODULE ControlPipe -----------------------------
(***************************************************************************)
(* What the control endpoint of the device promises to a host, with no     *)
(* word of packets, buffers and interrupts: a request is taken, takes      *)
(* effect and is answered, in this order; requests take effect one at a    *)
(* time and in the order in which they were taken, also when the host      *)
(* gives up and asks for something else; and a completed request has its   *)
(* whole answer.                                                           *)
(***************************************************************************)
CONSTANTS
  Requests, NoRequest, NoAnswer,
  Answer(_),         \* the answer to a request
  Effect(_, _),      \* the device's settings after a request
  InitialSettings,
  ResetSettings(_)   \* and after a reset of the bus

VARIABLES
  request,    \* the request the host makes
  state,      \* how far it got
  taken,      \* the request the device has yet to perform
  settings,   \* what requests change in the device
  answer      \* of the last completed request

pipeVars == <<request, state, taken, settings, answer>>

Init ==
  /\ request = NoRequest
  /\ state = "idle"
  /\ taken = NoRequest
  /\ settings = InitialSettings
  /\ answer = NoAnswer

Ask ==
  /\ state \in {"idle", "done"}
  /\ request' \in Requests
  /\ state' = "asked"
  /\ answer' = NoAnswer
  /\ UNCHANGED <<taken, settings>>

\* Only one request at a time waits in the device.
Take ==
  /\ state = "asked"
  /\ taken = NoRequest
  /\ taken' = request
  /\ state' = "taken"
  /\ UNCHANGED <<request, settings, answer>>

\* The host may miss that its request was taken, and repeat it.
Repeat ==
  /\ state = "taken"
  /\ state' = "asked"
  /\ UNCHANGED <<request, taken, settings, answer>>

Perform ==
  /\ taken # NoRequest
  /\ settings' = Effect(taken, settings)
  /\ taken' = NoRequest
  /\ UNCHANGED <<request, state, answer>>

Complete ==
  /\ state = "taken"
  /\ taken = NoRequest
  /\ state' = "done"
  /\ answer' = Answer(request)
  /\ UNCHANGED <<request, taken, settings>>

GiveUp ==
  /\ state # "idle"
  /\ state' = "idle"
  /\ answer' = NoAnswer
  /\ UNCHANGED <<request, taken, settings>>

Reset ==
  /\ settings' = ResetSettings(settings)
  /\ UNCHANGED <<request, state, taken, answer>>

\* The device starts again: a request that it took must be taken again
\* before it can be completed.
Restart ==
  /\ state' = IF state = "taken" THEN "asked" ELSE state
  /\ taken' = NoRequest
  /\ settings' = InitialSettings
  /\ UNCHANGED <<request, answer>>

Next == Ask \/ Take \/ Repeat \/ Perform \/ Complete \/ GiveUp \/ Reset \/ Restart

Spec == Init /\ [][Next]_pipeVars
=============================================================================
