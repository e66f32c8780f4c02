---------------------------- MODULE EvictionLoop ----------------------------
(***************************************************************************)
(* One call of fitLocked as the loop it is, and under it evictLocked blob  *)
(* by blob, on any index it may find.  ContentIndex takes the whole call   *)
(* as one step: an eviction pass is a set of victims (EvictionPasses), a   *)
(* dry run a comparison (Reserve).  This module shows that it may.         *)
(*                                                                         *)
(* The call holds the mutex, so nothing else moves.                        *)
(***************************************************************************)
EXTENDS ContentIndex

CONSTANTS
    Asked,        \* the sizes that room is asked for
    Promised,     \* the bytes that may be promised to others
    Directories,  \* the sets of blobs that may be on disk
    Claims,       \* the counts of claims there may be
    Now           \* the time of the call

ASSUME LoopAssumption ==
    /\ Asked \subseteq Nat /\ Promised \subseteq Nat
    /\ Directories \subseteq SUBSET Blob
    /\ Claims \subseteq [Blob -> Nat]
    /\ Now \in Nat
    /\ IsFiniteSet(Blob)

VARIABLES
    call,     \* the arguments: size, and apply (FALSE for a dry run)
    at,       \* where the call stands
    evicted,  \* the flags and sets of the same names
    spared,
    freed,
    victim,   \* the set that evictLocked is removing
    todo,     \* the hashes it has yet to release
    fits,     \* what the call returns
    before    \* the store that the call found (history)

vars == <<indexVars, call, at, evicted, spared, freed, victim, todo, fits, before>>

(* Any sets, some of them adopted without their chunks, and any claims.    *)
Init ==
    /\ now = Now
    /\ \E roots \in SUBSET Blob :
          \E own \in SUBSET roots, stored, used \in [roots -> 0 .. Now] :
          \E bare \in SUBSET (roots \ own) :
              /\ \A r \in roots : stored[r] <= used[r]
              /\ sets = [r \in roots |->
                            [owned |-> r \in own,
                             size |-> IF r \in bare THEN Size[r] ELSE SetSize(r),
                             chunks |-> IF r \in bare THEN <<>> ELSE ChunksOf(r),
                             storedAt |-> stored[r], lastAccess |-> used[r]]]
    /\ blobs = [h \in Blob |-> {r \in DOMAIN sets : h \in Members(r, sets[r].chunks)}]
    /\ disk \in Directories
    /\ pending \in Claims
    /\ reserved \in Promised
    /\ file = sets
    /\ dirty \in BOOLEAN
    /\ call \in [size : Asked, apply : BOOLEAN]
    /\ at = "enter"
    /\ evicted = FALSE /\ spared = {} /\ freed = 0
    /\ victim = "none" /\ todo = <<>>
    /\ fits = FALSE
    /\ before = [disk |-> disk, file |-> file, sets |-> sets, blobs |-> blobs, dirty |-> dirty]

----------------------------------------------------------------------------
(* fitLocked                                                               *)

(* Its deferred function writes the index once for the whole pass. *)
Return(answer) ==
    /\ at' = "returned"
    /\ fits' = answer
    /\ IF evicted THEN Save(sets) ELSE UNCHANGED <<file, dirty>>
    /\ UNCHANGED <<disk, sets, blobs, pending, reserved, now, call, evicted, spared, freed,
                   victim, todo, before>>

Refuse == at = "enter" /\ TooLarge(call.size) /\ Return(FALSE)

Enter ==
    /\ at = "enter"
    /\ ~ TooLarge(call.size)
    /\ at' = "look"
    /\ UNCHANGED <<indexVars, call, evicted, spared, freed, victim, todo, fits, before>>

(* Faulty: a budget that is just filled counts as exceeded. *)
RoomToSpare == HostedBytes - freed + call.size < HostBudget

(* The condition of the loop. *)
RoomNow == HostedBytes - freed + call.size <= HostBudget

Candidates == Evictable \ spared

(* Which of equals it is depends on the order in which Go goes through     *)
(* the map.                                                                *)
Victims == {v \in Candidates : \A s \in Candidates : ~ EvictedBefore(s, v)}

HasRoom == at = "look" /\ RoomNow /\ Return(TRUE)

NoVictim == at = "look" /\ ~ RoomNow /\ Candidates = {} /\ Return(FALSE)

(* Faulty: the root goes last. *)
EvictChunksFirst(v) ==
    /\ at = "look" /\ ~ RoomNow /\ call.apply
    /\ v \in Victims
    /\ sets' = SetsWithout({v})
    /\ victim' = v
    /\ todo' = sets[v].chunks \o <<v>>
    /\ evicted' = TRUE
    /\ at' = "release"
    /\ UNCHANGED <<disk, file, blobs, pending, reserved, dirty, now, call, spared, freed, fits,
                   before>>

Evict(v) ==
    /\ at = "look" /\ ~ RoomNow /\ call.apply
    /\ v \in Victims
    /\ sets' = SetsWithout({v})
    /\ victim' = v
    /\ todo' = <<v>> \o sets[v].chunks
    /\ evicted' = TRUE
    /\ at' = "release"
    /\ UNCHANGED <<disk, file, blobs, pending, reserved, dirty, now, call, spared, freed, fits,
                   before>>

(* Faulty: the sign is wrong. *)
SpareSubtracting(v) ==
    /\ at = "look" /\ ~ RoomNow /\ ~ call.apply
    /\ v \in Victims
    /\ freed' = freed - sets[v].size
    /\ spared' = spared \cup {v}
    /\ UNCHANGED <<indexVars, call, at, evicted, victim, todo, fits, before>>

(* Faulty: a set that was spared is looked at again. *)
SpareAgain(v) ==
    /\ at = "look" /\ ~ RoomNow /\ ~ call.apply
    /\ v \in Victims
    /\ freed' = freed + sets[v].size
    /\ UNCHANGED <<indexVars, call, at, evicted, spared, victim, todo, fits, before>>

(* A dry run notes what it would have freed. *)
Spare(v) ==
    /\ at = "look" /\ ~ RoomNow /\ ~ call.apply
    /\ v \in Victims
    /\ freed' = freed + sets[v].size
    /\ spared' = spared \cup {v}
    /\ UNCHANGED <<indexVars, call, at, evicted, victim, todo, fits, before>>

----------------------------------------------------------------------------
(* evictLocked: its function release, for the root and then for each chunk *)

(* Faulty: a claim does not hold the blob back. *)
ReleaseDespiteClaims ==
    LET h == Head(todo)
        left == blobs[h] \ {victim}
    IN  /\ at = "release"
        /\ todo # <<>>
        /\ blobs' = [blobs EXCEPT ![h] = left]
        /\ disk' = IF left = {} THEN disk \ {h} ELSE disk
        /\ todo' = Tail(todo)
        /\ UNCHANGED <<file, sets, pending, reserved, dirty, now, call, at, evicted, spared, freed,
                       victim, fits, before>>

ReleaseBlob ==
    LET h == Head(todo)
        left == blobs[h] \ {victim}
    IN  /\ at = "release"
        /\ todo # <<>>
        /\ blobs' = [blobs EXCEPT ![h] = left]
        /\ disk' = IF left = {} /\ pending[h] = 0 THEN disk \ {h} ELSE disk
        /\ todo' = Tail(todo)
        /\ UNCHANGED <<file, sets, pending, reserved, dirty, now, call, at, evicted, spared, freed,
                       victim, fits, before>>

EvictEnds ==
    /\ at = "release"
    /\ todo = <<>>
    /\ at' = "look"
    /\ UNCHANGED <<indexVars, call, evicted, spared, freed, victim, todo, fits, before>>

(* The call is over. A loop that could not go on before would be a deadlock. *)
Returned == at = "returned" /\ UNCHANGED vars

Next ==
    \/ Refuse
    \/ Enter
    \/ HasRoom
    \/ NoVictim
    \/ \E v \in Blob : Evict(v) \/ Spare(v)
    \/ ReleaseBlob
    \/ EvictEnds
    \/ Returned

Spec == Init /\ [][Next]_vars

----------------------------------------------------------------------------
(* Properties                                                              *)

TypeOK ==
    /\ IndexTypeOK
    /\ call \in [size : Nat, apply : BOOLEAN]
    /\ at \in {"enter", "look", "release", "returned"}
    /\ evicted \in BOOLEAN /\ fits \in BOOLEAN
    /\ spared \subseteq Blob
    /\ freed \in Nat
    /\ victim \in Blob \cup {"none"}
    /\ todo \in Seq(Blob)

Before == INSTANCE ContentIndex
    WITH disk <- before.disk, file <- before.file, sets <- before.sets, blobs <- before.blobs,
         dirty <- before.dirty

(* The passes that ContentIndex allows in the store that the call found. *)
Passes == Before!EvictionPasses(call.size, reserved)

(* When a call returns, what it has done to the store is what ContentIndex *)
(* describes by one set of victims, and so is its answer (fitLocked,       *)
(* evictLocked): blobs that victims share with each other, with sets that  *)
(* stay and with writers included, and a save that fails.                  *)
CallIsOnePass ==
    at = "returned" /\ call.apply =>
        \E V \in Passes :
            /\ fits = Before!Fits(call.size, reserved, V)
            /\ sets = Before!SetsWithout(V)
            /\ blobs = Before!RefsWithout(V)
            /\ disk = before.disk \ Before!Evicted(V)
            /\ \/ V # {} /\ file = sets /\ ~ dirty
               \/ /\ V = {} \/ IndexMayFail
                  /\ file = before.file /\ dirty = before.dirty

(* The sets that the loop has picked, to go or to be counted as free. *)
Gone == DOMAIN before.sets \ DOMAIN sets
Picked == Gone \cup spared

(* The sets that a pass may end with: without the last of them there was   *)
(* too little room.                                                        *)
LastOf(V) == {v \in V : /\ \A s \in V : ~ Before!EvictedBefore(v, s)
                       /\ ~ Before!Room(call.size, reserved, V \ {v})}

(* Conversely, every pass is what the loop may do (fitLocked): while it has *)
(* picked sets of the pass, but not the last, it goes on and may pick      *)
(* another of them, the last one last; with all of them it stops.          *)
PassesStayOpen ==
    at = "look" =>
        \A V \in Passes :
            /\ Picked = V => RoomNow \/ Candidates = {}
            /\ \A last \in LastOf(V) :
                  Picked \subseteq V \ {last} =>
                      /\ ~ RoomNow
                      /\ IF Picked = V \ {last} THEN last \in Victims
                         ELSE Victims \cap (V \ {last}) # {}

(* A dry run deletes nothing and answers as the real one would (Reserve),  *)
(* whichever victims that would take.                                      *)
DryRunTells ==
    at = "returned" /\ ~ call.apply =>
        /\ disk = before.disk /\ sets = before.sets /\ file = before.file
        /\ fits = Before!Fits(call.size, reserved, Before!Evictable)
        /\ \A V \in Passes : fits = Before!Fits(call.size, reserved, V)

(* Wherever the process dies in the loop, the directory and the index file *)
(* are as ContentService!DiesEvicting has it: a part of one pass is        *)
(* deleted, of each victim the root before its chunks.                     *)
DeathsForeseen ==
    call.apply =>
        \E V \in Passes : \E gone \in SUBSET Before!Evicted(V) :
            /\ \A r \in V : Members(r, before.sets[r].chunks) \cap gone # {}
                               => r \notin Before!Evicted(V) \ gone
            /\ disk = before.disk \ gone
            /\ \/ file = before.file
               \/ V # {} /\ gone = Before!Evicted(V) /\ file = Before!SetsWithout(V)

(* How much is left to do: sets to look at, then what the loop does with   *)
(* one of them.                                                            *)
LeftToDo ==
    <<Cardinality(Candidates),
      CASE at = "enter" -> 3 [] at = "release" -> 2 [] at = "look" -> 1 [] OTHER -> 0,
      Len(todo)>>

(* Every step leaves less to do, so that no call goes on for ever, nor any *)
(* that waits for the mutex (fitLocked's loop): no set is looked at twice, *)
(* in a dry run either.                                                    *)
StepsRunOut ==
    [][\E i \in 1 .. 3 : /\ LeftToDo'[i] < LeftToDo[i]
                         /\ \A j \in 1 .. i - 1 : LeftToDo'[j] = LeftToDo[j]]_vars
=============================================================================
