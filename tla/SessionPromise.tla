--------------------------- MODULE SessionPromise ---------------------------
(***************************************************************************)
(* What sleeping promises the user of one session, without slots, stores   *)
(* or workers: the files a session fell asleep with are the files it wakes *)
(* with, and nobody works in it before they are back.  Variables may be    *)
(* lost, files of a live interpreter too - with it.  Files that are kept   *)
(* go only when the user closes the session, or when the stored copy is    *)
(* damaged, which is noticed.                                              *)
(***************************************************************************)
CONSTANTS File

VARIABLES
    place,     \* where the session's files are
    files,     \* the files whoever works in it sees
    saved,     \* the files it fell asleep with
    intact     \* FALSE once the stored copy was damaged

promiseVars == <<place, files, saved, intact>>

(* handed: given back to the front end, the wake not yet over.              *)
Place == {"none", "live", "kept", "handed", "closed"}

PromiseInit == place = "none" /\ files = {} /\ saved = {} /\ intact

Go(from, to) == place = from /\ place' = to

Begin == Go("none", "live") /\ files' = {} /\ UNCHANGED <<saved, intact>>
Work == Go("live", "live") /\ files' \in SUBSET File /\ UNCHANGED <<saved, intact>>
Handle == Go("handed", "handed") /\ files' \in SUBSET File /\ UNCHANGED <<saved, intact>>
Lose == Go("live", "none") /\ files' = {} /\ UNCHANGED <<saved, intact>>

FallAsleep == Go("live", "kept") /\ saved' = files /\ files' = {} /\ intact'
GiveBack == Go("kept", "handed") /\ intact /\ files' = saved /\ UNCHANGED <<saved, intact>>

(* The wake failed after all, or came to its end.                           *)
TakeBack == Go("handed", "kept") /\ files' = {} /\ intact' \in BOOLEAN /\ UNCHANGED saved
Awake ==
    /\ \/ Go("handed", "live") /\ UNCHANGED files
       \/ Go("handed", "none") /\ files' = {}
    /\ saved' = {}
    /\ intact'

Spoil == Go("kept", "kept") /\ ~intact' /\ UNCHANGED <<files, saved>>

Shut == place # "closed" /\ place' = "closed" /\ files' = {} /\ saved' = {} /\ intact'

PromiseNext ==
    \/ Begin \/ Work \/ Handle \/ Lose \/ FallAsleep \/ GiveBack \/ TakeBack \/ Awake
    \/ Spoil \/ Shut

PromiseSpec == PromiseInit /\ [][PromiseNext]_promiseVars
=============================================================================
