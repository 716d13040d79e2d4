-------------------------- MODULE ExporterContract --------------------------
(***************************************************************************)
(* What emit.Exporter promises its caller (src/emit/emit.go), whatever the *)
(* backend: which answer may be given when, and what a nil obliges to.     *)
(* An item is one record of one export call.                               *)
(***************************************************************************)
EXTENDS Naturals

CONSTANTS ExportCalls, ItemsOf(_), Sound   \* Sound: calls with no malformed record

VARIABLES
    phase,    \* call -> "idle", "early", "late" (begun after a Shutdown
              \* returned), "nil" or "error"
    backend,  \* items the backend has
    down,     \* some Shutdown has returned
    clean     \* some Shutdown has returned nil

Late(c) == phase[c] = "late" \/ (phase[c] = "idle" /\ down)

Owed == UNION {ItemsOf(c) : c \in {d \in ExportCalls : phase[d] = "nil"}}

Init == /\ phase = [c \in ExportCalls |-> "idle"]
        /\ backend = {} /\ down = FALSE /\ clean = FALSE

Begin(c) ==
    /\ phase[c] = "idle"
    /\ phase' = [phase EXCEPT ![c] = IF down THEN "late" ELSE "early"]
    /\ UNCHANGED <<backend, down, clean>>

\* The backend takes items of calls under way, or acknowledged before; the call
\* in whose course it does may end with an error.
Take ==
    /\ backend \subseteq backend'
    /\ backend' \subseteq UNION {ItemsOf(c) : c \in {d \in ExportCalls : phase[d] # "idle"}}
    /\ \A c \in ExportCalls : phase'[c] # phase[c] => phase[c] = "early" /\ phase'[c] = "error"
    /\ UNCHANGED <<down, clean>>

\* After a Shutdown returned, nil means the call still works: delivered.
AnswerNil(c) ==
    /\ phase[c] \in {"idle", "early", "late"}
    /\ Late(c) => ItemsOf(c) \subseteq backend
    /\ phase' = [phase EXCEPT ![c] = "nil"]
    /\ UNCHANGED <<backend, down, clean>>

\* After a Shutdown returned, an error means refused: nothing delivered.
AnswerError(c) ==
    /\ phase[c] \in {"idle", "early", "late"}
    /\ (Late(c) /\ c \in Sound) => ItemsOf(c) \cap backend = {}
    /\ phase' = [phase EXCEPT ![c] = "error"]
    /\ UNCHANGED <<backend, down, clean>>

\* A nil says that all acknowledged items are flushed; after one nil, always nil.
Shutdown(ok) ==
    /\ ok => Owed \subseteq backend'
    /\ clean => ok
    /\ backend \subseteq backend'
    /\ backend' \subseteq UNION {ItemsOf(c) : c \in {d \in ExportCalls : phase[d] # "idle"}}
    /\ down' = TRUE /\ clean' = (clean \/ ok)
    /\ UNCHANGED phase

Next == \/ Take
        \/ \E c \in ExportCalls : Begin(c) \/ AnswerNil(c) \/ AnswerError(c)
        \/ \E ok \in BOOLEAN : Shutdown(ok)

Spec == Init /\ [][Next]_<<phase, backend, down, clean>>
=============================================================================
