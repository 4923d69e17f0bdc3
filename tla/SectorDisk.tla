----------------------------- MODULE SectorDisk -----------------------------
(***************************************************************************)
(* What the ATA driver promises the file system: sectors that are read and  *)
(* written whole.  A write is requested, takes effect at once or is lost by *)
(* a drive that reports an error, and is over; a read that reports success  *)
(* has the contents of the sector it was asked for.                         *)
(***************************************************************************)
CONSTANTS
    Actor,          \* who reads: the running command and TAB
    Sector,
    Contents,       \* what a sector may hold
    None,           \* no request, no answer
    Drive, Identity \* the answer of IDENTIFY DEVICE

VARIABLES disk, request, answer, sound

Init ==
    /\ disk \in [Sector -> Contents]
    /\ request = None /\ answer = [a \in Actor |-> None] /\ sound = TRUE

Request ==
    /\ request = None /\ request' \in [to : Sector, data : Contents]
    /\ UNCHANGED disk
Apply ==
    /\ request # None /\ disk' = [disk EXCEPT ![request.to] = request.data]
    /\ UNCHANGED <<request, answer>>
Over == request' = None /\ UNCHANGED <<disk, answer>>

Answers(a) == {None, [from |-> Drive, data |-> Identity]} \cup {[from |-> s, data |-> disk[s]] : s \in Sector}
Answer(a) ==
    /\ \E new \in Answers(a) : answer' = [answer EXCEPT ![a] = new]
    /\ UNCHANGED disk

(* A new request is where the answer to the call before is forgotten.        *)
Next ==
    \/ /\ sound /\ sound' = sound
       /\ \/ Request /\ \E a \in Actor : answer' = [answer EXCEPT ![a] = None]
          \/ Apply
          \/ Over
          \/ \E a \in Actor : Answer(a) /\ UNCHANGED request
    \/ sound' = FALSE

Spec == Init /\ [][Next]_<<disk, request, answer, sound>>
=============================================================================
