---------------------------- MODULE BlockService ----------------------------
(***************************************************************************)
(* What kernel/include/minemu/block.h promises its callers: each call is   *)
(* one transfer, made at one instant between the call and its return, and  *)
(* the value returned is the error of that very transfer.                  *)
(***************************************************************************)
EXTENDS BlockMedia

CONSTANTS
  Contexts         \* the contexts of the single CPU that may call the interface

VARIABLES
  media, ram,      \* the storage and the RAM that DMA reaches
  phase,           \* phase[c]: "idle", "called" or "done"
  asked,           \* asked[c]: the transfer context c asks for
  answer           \* answer[c]: the error of a transfer that is "done"

vars == <<media, ram, phase, asked, answer>>

Init ==
  /\ media \in Media
  /\ ram \in Ram
  /\ phase = [c \in Contexts |-> "idle"]
  /\ asked = [c \in Contexts |-> NoRequest]
  /\ answer = [c \in Contexts |-> NONE]

Call(c, r) ==
  /\ phase[c] = "idle"
  /\ phase' = [phase EXCEPT ![c] = "called"]
  /\ asked' = [asked EXCEPT ![c] = r]
  /\ UNCHANGED <<media, ram, answer>>

Perform(c) ==
  /\ phase[c] = "called"
  /\ \E e \in ErrorCodes :
       /\ Transferred(asked[c], e, media, ram, media', ram')
       /\ answer' = [answer EXCEPT ![c] = e]
  /\ phase' = [phase EXCEPT ![c] = "done"]
  /\ UNCHANGED asked

Return(c) ==
  /\ phase[c] = "done"
  /\ phase' = [phase EXCEPT ![c] = "idle"]
  /\ asked' = [asked EXCEPT ![c] = NoRequest]
  /\ answer' = [answer EXCEPT ![c] = NONE]
  /\ UNCHANGED <<media, ram>>

Next ==
  \E c \in Contexts :
    \/ \E r \in Requests : Call(c, r)
    \/ Perform(c)
    \/ Return(c)

Spec == Init /\ [][Next]_vars
=============================================================================
