----------------------------- MODULE MCBackground -----------------------------
(***************************************************************************)
(* Finite instances of the three components that work behind the requests: *)
(* provider checks, notification deliveries and imports.  They share       *)
(* nothing, so each behaviour is one of one of them.                       *)
(***************************************************************************)
EXTENDS PaymentConnections, Notifications, Imports

CONSTANT Parts     \* the components to look at

VARIABLE part

vars == <<part, connVars, noteVars, importVars>>

MCTemplates ==
  { [tenant |-> "shared", channel |-> "email", active |-> TRUE],
    [tenant |-> "own", channel |-> "sms", active |-> FALSE],
    [tenant |-> "shared", channel |-> "in-app", active |-> TRUE] }

MCChannelLists == {<<"email", "sms">>, <<"in-app">>}

Init ==
  /\ part \in Parts
  /\ ConnInit /\ NoteInit /\ ImportInit
  /\ part # "notifications" => workers = 1

Next ==
  \/ part = "connections" /\ ConnNext /\ UNCHANGED <<part, noteVars, importVars>>
  \/ part = "notifications" /\ NoteNext /\ UNCHANGED <<part, connVars, importVars>>
  \/ part = "imports" /\ ImportNext /\ UNCHANGED <<part, connVars, noteVars>>

Spec == Init /\ [][Next]_vars /\ FairConns /\ FairWorkers /\ FairImports
=============================================================================
