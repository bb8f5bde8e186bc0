--------------------------- MODULE WorkerRegistry ---------------------------
(***************************************************************************)
(* The hash {ns}:workers, the system's only failure detector, with the     *)
(* heartbeat and the reaper command by command (broker/redis.py), where    *)
(* TaskSystem has the heartbeat as one step.                               *)
(*                                                                         *)
(* An entry is fresh or stale, which stands for the age of its             *)
(* last_heartbeat against stale_timeout, or absent.  Requeueing all queues *)
(* of a worker is one step; TaskSystem has it per queue.  The reap that    *)
(* start() makes before it registers is one reap more and is left out.     *)
(***************************************************************************)
EXTENDS FiniteSets

CONSTANTS
  Member,  \* worker ids
  Reaper   \* those whose maintenance loop comes round: all, or fewer for TLC

ASSUME ReaperAssumption == Reaper \subseteq Member

VARIABLES
  member,   \* member[w]: the worker's process
  entry,    \* entry[w]: its field in the hash
  beat,     \* the workers whose heartbeat has read its entry
  claimed,  \* claimed[r]: found stale by r's reaper, queues not yet requeued
  emptied,  \* emptied[r]: the one whose queues r has requeued, not forgotten
  listed,   \* history: died with an entry, no reaper past its queues
  noticed   \* history: their queues were requeued after their death

registryVars == <<member, entry, beat, claimed, emptied, listed, noticed>>

RegistryTypeOK ==
  /\ member \in [Member -> {"new", "up", "gone"}]
  /\ entry \in [Member -> {"absent", "fresh", "stale"}]
  /\ claimed \in [Member -> SUBSET Member]
  /\ emptied \in [Member -> SUBSET Member]
  /\ {beat, listed, noticed} \subseteq SUBSET Member

RegistryInit ==
  /\ member = [w \in Member |-> "new"]
  /\ entry = [w \in Member |-> "absent"]
  /\ claimed = [w \in Member |-> {}]
  /\ emptied = [w \in Member |-> {}]
  /\ beat = {} /\ listed = {} /\ noticed = {}

-----------------------------------------------------------------------------
(* The worker's own entry. *)

\* register_worker: HSET.
Enlist(w) ==
  /\ member[w] = "new"
  /\ member' = [member EXCEPT ![w] = "up"]
  /\ entry' = [entry EXCEPT ![w] = "fresh"]
  /\ UNCHANGED <<beat, claimed, emptied, listed, noticed>>

\* heartbeat: HGET.  Without an entry it does nothing, so a worker that was
\* reaped stays out.
BeatRead(w) ==
  /\ member[w] = "up" /\ w \notin beat /\ entry[w] # "absent"
  /\ beat' = beat \cup {w}
  /\ UNCHANGED <<member, entry, claimed, emptied, listed, noticed>>

\* heartbeat: HSET of what was read, with the time of now; an entry that was
\* removed meanwhile is back.
BeatWrite(w) ==
  /\ w \in beat
  /\ beat' = beat \ {w}
  /\ entry' = [entry EXCEPT ![w] = "fresh"]
  /\ UNCHANGED <<member, claimed, emptied, listed, noticed>>

\* The loops of w are gone, and with them what its reaper had claimed.
LoopsEnd(w) ==
  /\ member' = [member EXCEPT ![w] = "gone"]
  /\ beat' = beat \ {w}
  /\ claimed' = [claimed EXCEPT ![w] = {}]
  /\ emptied' = [emptied EXCEPT ![w] = {}]

\* stop() has cancelled the loops: deregister_worker, HDEL.
Deregister(w) ==
  /\ member[w] = "up"
  /\ LoopsEnd(w)
  /\ entry' = [entry EXCEPT ![w] = "absent"]
  /\ UNCHANGED <<listed, noticed>>

\* The process dies; the HSET of a heartbeat may still be executed.
Dies(w) ==
  /\ member[w] = "up"
  /\ LoopsEnd(w)
  /\ \/ UNCHANGED entry
     \/ w \in beat /\ entry' = [entry EXCEPT ![w] = "fresh"]
  /\ listed' = IF entry'[w] # "absent" /\ \A r \in Member : w \notin emptied[r]
                 THEN listed \cup {w} ELSE listed
  /\ UNCHANGED noticed

\* stale_timeout passes for an entry; a live worker may be late as well.
GoesStale(w) ==
  /\ entry[w] = "fresh"
  /\ entry' = [entry EXCEPT ![w] = "stale"]
  /\ UNCHANGED <<member, beat, claimed, emptied, listed, noticed>>

-----------------------------------------------------------------------------
(* reap_stale_workers *)

\* Faulty variant: stale entries are removed first, to claim them.
ScanForgets(r) ==
  /\ member[r] = "up" /\ claimed[r] = {} /\ emptied[r] = {}
  /\ claimed' = [claimed EXCEPT ![r] = {w \in Member : entry[w] = "stale"}]
  /\ entry' =
       [w \in Member |-> IF entry[w] = "stale" THEN "absent" ELSE entry[w]]
  /\ UNCHANGED <<member, beat, emptied, listed, noticed>>

\* HGETALL; what is stale now will be reaped, whatever it does meanwhile.
Scan(r) ==
  /\ member[r] = "up" /\ claimed[r] = {} /\ emptied[r] = {}
  /\ claimed' = [claimed EXCEPT ![r] = {w \in Member : entry[w] = "stale"}]
  /\ UNCHANGED <<member, entry, beat, emptied, listed, noticed>>

\* reap_stale.lua on each of the worker's queues.
ReapQueues(r, w) ==
  /\ w \in claimed[r] /\ emptied[r] = {}
  /\ claimed' = [claimed EXCEPT ![r] = @ \ {w}]
  /\ emptied' = [emptied EXCEPT ![r] = {w}]
  /\ noticed' = IF w \in listed THEN noticed \cup {w} ELSE noticed
  /\ UNCHANGED <<member, entry, beat, listed>>

\* HDEL.
ForgetEntry(r, w) ==
  /\ w \in emptied[r]
  /\ emptied' = [emptied EXCEPT ![r] = {}]
  /\ entry' = [entry EXCEPT ![w] = "absent"]
  /\ UNCHANGED <<member, beat, claimed, listed, noticed>>

ReaperStep(r) ==
  /\ r \in Reaper
  /\ Scan(r) \/ \E w \in Member : ReapQueues(r, w) \/ ForgetEntry(r, w)

RegistryNext ==
  \E w \in Member :
    \/ Enlist(w) \/ BeatRead(w) \/ BeatWrite(w)
    \/ Deregister(w) \/ Dies(w) \/ GoesStale(w)
    \/ ReaperStep(w)

DeadGoesStale(w) == member[w] = "gone" /\ GoesStale(w)

\* Maintenance goes on in a worker that is up, and time passes for the dead.
RegistryFairness ==
  \A w \in Member :
    WF_registryVars(ReaperStep(w)) /\ WF_registryVars(DeadGoesStale(w))

RegistrySpec ==
  RegistryInit /\ [][RegistryNext]_registryVars /\ RegistryFairness

-----------------------------------------------------------------------------
(* Properties. *)

\* The entry of a worker that died with one is there until its queues were
\* requeued after its death, even if reapers die half-way: without it nobody
\* would look at them again.  (Unless a reaper had just been through them.)
ListedUntilReaped == \A w \in listed \ noticed : entry[w] # "absent"

\* A worker's death leads to a reap of its queues, as long as some worker
\* stays, even if reapers die half-way and heartbeats bring removed entries
\* back, unless the entry was gone at its death (reaped while it was alive,
\* and heartbeat does not register again) or a reaper had just been through
\* its queues and was about to remove the entry.
DeathIsNoticed ==
  \A w \in Member :
    <>[](w \in listed /\ \E r \in Reaper : member[r] = "up")
      => <>(w \in noticed)

=============================================================================
