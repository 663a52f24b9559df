-------------------------- MODULE WatermarkProofs --------------------------
(***************************************************************************)
(* Proofs about Watermark, for any number of batches and refs: what a run  *)
(* that follows another, never beside it, can and cannot lose.             *)
(***************************************************************************)
EXTENDS Watermark, TLAPS

-----------------------------------------------------------------------------
(* The inductive invariant.                                                *)

\* Nothing is dated later than the clock.
Clock ==
  /\ \A r \in Refs : edited[r] =< now /\ shown[r] =< now
  /\ \A b \in Batches :
       /\ rows[b].completed =< now
       /\ \A r \in Refs : work[b].readAt[r] =< now

\* One batch at a time.
Alone == \A b, c \in Batches : Alive(b) /\ Alive(c) => b = c

\* A run has its outcome only when it is over, and its row only once begun.
Lifecycle ==
  \A b \in Batches :
    /\ rows[b].status \in {"success", "other"} => pc[b] = "gone"
    /\ pc[b] = "unborn" => rows[b] = NoRow /\ work[b].unread = Refs

\* A ref that a run has yet to reach was neither read nor extracted by it.
Unreached ==
  \A b \in Batches : \A r \in work[b].unread :
    work[b].readAt[r] = 0 /\ r \notin work[b].pending

\* What waits to be stored is newer than the watermark, and is the present
\* text of its ref unless that has changed since it was read.
Pending ==
  \A b \in Batches : Alive(b) =>
    \A r \in work[b].pending :
      /\ work[b].since < edited[r]
      /\ work[b].got[r] = edited[r] \/ work[b].readAt[r] < edited[r]

\* While a run is under way the watermark is the one that it has read.
Since ==
  \A b \in Batches : Alive(b) =>
    /\ \A c \in Batches : Succeeded(c) => rows[c].completed =< work[b].since
    /\ rows[b] # NoRow =>
         work[b].since = 0 \/ \E c \in Batches : /\ Succeeded(c)
                                                /\ work[b].since =< rows[c].completed

\* A run without an error or a reset so far has dealt with each ref it has
\* reached, or has its text in hand, has not read the ref's last change, or has
\* dropped a text as noise.
Reached ==
  \A b \in Batches : Alive(b) /\ rows[b] # NoRow /\ ~work[b].failed =>
    \A r \in Refs \ work[b].unread :
      \/ r \in work[b].pending
      \/ edited[r] =< work[b].since
      \/ shown[r] = 0
      \/ stored[r] = edited[r]
      \/ work[b].readAt[r] < edited[r]
      \/ work[b].readAt[r] < shown[r]
      \/ r \in work[b].noise

\* No success is later than the start of the last run, if that one failed.
Retries ==
  \A b, c \in Batches :
    /\ rows[b].status = "other"
    /\ \A d \in Batches : rows[d].completed =< rows[b].completed
    /\ Succeeded(c)
    => rows[c].completed =< work[b].since

IInv == /\ TypeOK /\ Clock /\ Alone /\ Lifecycle /\ Unreached
        /\ Pending /\ Since /\ Reached /\ Retries /\ OnlyUnreadOrNoiseIsLost

-----------------------------------------------------------------------------
(* What each step does to the local variables of a batch.                  *)

\* The change that Read makes to the local variables of b.
LEMMA ReadWork ==
  ASSUME TypeOK, NEW b \in Batches, NEW r \in Refs, Read(b, r)
  PROVE  /\ work' \in [Batches -> Work]
         /\ \A c \in Batches \ {b} : work'[c] = work[c]
         /\ work'[b].since = work[b].since
         /\ work'[b].failed = work[b].failed
         /\ work'[b].noise = work[b].noise
         /\ work'[b].unread = work[b].unread \ {r}
         /\ work'[b].readAt[r] = now
         /\ \A s \in Refs \ {r} : /\ work'[b].readAt[s] = work[b].readAt[s]
                                  /\ work'[b].got[s] = work[b].got[s]
         /\ IF shown[r] > 0 /\ edited[r] > work[b].since
            THEN /\ work'[b].got[r] = edited[r]
                 /\ work'[b].pending = work[b].pending \cup {r}
            ELSE work'[b].pending = work[b].pending
<1> DEFINE w == work[b]
           new == shown[r] > 0 /\ edited[r] > w.since
           u == [w EXCEPT !.unread = w.unread \ {r},
                          !.readAt = [w.readAt EXCEPT ![r] = now],
                          !.got = [w.got EXCEPT ![r] = IF new THEN edited[r] ELSE 0],
                          !.pending = w.pending \cup (IF new THEN {r} ELSE {})]
<1>1. work' = [work EXCEPT ![b] = u]
  BY DEF Read
<1>2. w \in Work
  BY DEF TypeOK
<1>3. /\ u.since = w.since
      /\ u.failed = w.failed
      /\ u.noise = w.noise
      /\ u.unread = w.unread \ {r}
      /\ u.readAt = [w.readAt EXCEPT ![r] = now]
      /\ u.got = [w.got EXCEPT ![r] = IF new THEN edited[r] ELSE 0]
      /\ u.pending = w.pending \cup (IF new THEN {r} ELSE {})
  BY <1>2 DEF Work
<1>4. u \in Work
  BY <1>2 DEF Work, TypeOK
<1>5. /\ work'[b] = u
      /\ \A c \in Batches \ {b} : work'[c] = work[c]
      /\ work' \in [Batches -> Work]
  BY <1>1, <1>4 DEF TypeOK
<1> HIDE DEF u
<1> QED
  BY <1>2, <1>3, <1>5, ZenonT(60) DEF Work

\* What DropNoise changes of them.
LEMMA DropWork ==
  ASSUME TypeOK, NEW b \in Batches, NEW r \in Refs, DropNoise(b, r)
  PROVE  /\ work' \in [Batches -> Work]
         /\ \A c \in Batches \ {b} : work'[c] = work[c]
         /\ work'[b].since = work[b].since
         /\ work'[b].failed = work[b].failed
         /\ work'[b].got = work[b].got
         /\ work'[b].pending = work[b].pending
         /\ work'[b].unread = work[b].unread \ {r}
         /\ work'[b].noise = work[b].noise \cup {r}
         /\ work'[b].readAt[r] = now
         /\ \A s \in Refs \ {r} : work'[b].readAt[s] = work[b].readAt[s]
<1> DEFINE w == work[b]
           u == [w EXCEPT !.unread = w.unread \ {r},
                          !.readAt = [w.readAt EXCEPT ![r] = now],
                          !.noise = w.noise \cup {r}]
<1>1. work' = [work EXCEPT ![b] = u]
  BY DEF DropNoise
<1>2. w \in Work
  BY DEF TypeOK
<1>3. /\ u.since = w.since /\ u.failed = w.failed
      /\ u.got = w.got /\ u.pending = w.pending
      /\ u.unread = w.unread \ {r}
      /\ u.noise = w.noise \cup {r}
      /\ u.readAt = [w.readAt EXCEPT ![r] = now]
  BY <1>2 DEF Work
<1>4. u \in Work
  BY <1>2 DEF Work, TypeOK
<1>5. /\ work'[b] = u
      /\ \A c \in Batches \ {b} : work'[c] = work[c]
      /\ work' \in [Batches -> Work]
  BY <1>1, <1>4 DEF TypeOK
<1>6. w.readAt \in [Refs -> Nat]
  BY <1>2 DEF Work
<1>7. /\ u.readAt[r] = now
      /\ \A s \in Refs \ {r} : u.readAt[s] = w.readAt[s]
  BY <1>3, <1>6
<1> HIDE DEF u
<1> QED
  BY <1>3, <1>5, <1>7

\* What SkipUnreadable changes of them.
LEMMA SkipWork ==
  ASSUME TypeOK, NEW b \in Batches, NEW r \in Refs, SkipUnreadable(b, r)
  PROVE  /\ work' \in [Batches -> Work]
         /\ \A c \in Batches \ {b} : work'[c] = work[c]
         /\ work'[b].since = work[b].since
         /\ work'[b].readAt = work[b].readAt
         /\ work'[b].noise = work[b].noise
         /\ work'[b].got = work[b].got
         /\ work'[b].pending = work[b].pending
         /\ work'[b].failed = work[b].failed
         /\ work'[b].unread = work[b].unread \ {r}
<1>1. work[b] \in Work
  BY DEF TypeOK
<1> QED
  BY <1>1 DEF TypeOK, Work, SkipUnreadable

\* What ExtractFails changes of them.
LEMMA ExtractFailsWork ==
  ASSUME TypeOK, NEW b \in Batches, NEW r \in Refs, ExtractFails(b, r)
  PROVE  /\ work' \in [Batches -> Work]
         /\ \A c \in Batches \ {b} : work'[c] = work[c]
         /\ work'[b].since = work[b].since
         /\ work'[b].readAt = work[b].readAt
         /\ work'[b].noise = work[b].noise
         /\ work'[b].got = work[b].got
         /\ work'[b].pending = work[b].pending
         /\ work'[b].unread = work[b].unread \ {r}
         /\ work'[b].failed
<1>1. work[b] \in Work
  BY DEF TypeOK
<1> QED
  BY <1>1 DEF TypeOK, Work, ExtractFails

\* What Stop changes of them.
LEMMA StopWork ==
  ASSUME TypeOK, NEW b \in Batches, Stop(b)
  PROVE  /\ work' \in [Batches -> Work]
         /\ \A c \in Batches \ {b} : work'[c] = work[c]
         /\ work'[b].since = work[b].since
         /\ work'[b].readAt = work[b].readAt
         /\ work'[b].noise = work[b].noise
         /\ work'[b].got = work[b].got
         /\ work'[b].pending = work[b].pending
         /\ work'[b].unread = {}
         /\ work'[b].failed
<1>1. work[b] \in Work
  BY DEF TypeOK
<1> QED
  BY <1>1 DEF TypeOK, Work, Stop

\* What Process changes of them.
LEMMA ProcessWork ==
  ASSUME TypeOK, NEW b \in Batches, NEW r \in Refs, Process(b, r)
  PROVE  /\ work' \in [Batches -> Work]
         /\ \A c \in Batches \ {b} : work'[c] = work[c]
         /\ work'[b].since = work[b].since
         /\ work'[b].readAt = work[b].readAt
         /\ work'[b].noise = work[b].noise
         /\ work'[b].got = work[b].got
         /\ work'[b].unread = work[b].unread
         /\ work'[b].failed = work[b].failed
         /\ work'[b].pending = work[b].pending \ {r}
<1>1. work[b] \in Work
  BY DEF TypeOK
<1> QED
  BY <1>1 DEF TypeOK, Work, Process

\* What ProcessFails changes of them.
LEMMA ProcessFailsWork ==
  ASSUME TypeOK, NEW b \in Batches, NEW r \in Refs, ProcessFails(b, r)
  PROVE  /\ work' \in [Batches -> Work]
         /\ \A c \in Batches \ {b} : work'[c] = work[c]
         /\ work'[b].since = work[b].since
         /\ work'[b].readAt = work[b].readAt
         /\ work'[b].noise = work[b].noise
         /\ work'[b].got = work[b].got
         /\ work'[b].unread = work[b].unread
         /\ work'[b].pending = work[b].pending \ {r}
         /\ work'[b].failed
<1>1. work[b] \in Work
  BY DEF TypeOK
<1> QED
  BY <1>1 DEF TypeOK, Work, ProcessFails

-----------------------------------------------------------------------------
(* The steps keep the invariant.                                           *)

\* The initial states satisfy it.
LEMMA InitHolds == Init => IInv
<1> SUFFICES ASSUME Init PROVE IInv
  OBVIOUS
<1> USE DEF Init, Nothing, NoRow
<1>1. TypeOK
  BY DEF TypeOK, Work, Row, Status
<1>2. \A b \in Batches : /\ work[b].since = 0 /\ work[b].unread = Refs
                         /\ work[b].readAt = Nothing /\ work[b].pending = {}
                         /\ rows[b] = NoRow /\ ~Alive(b) /\ ~Succeeded(b)
  BY DEF Alive, Succeeded
<1>3. Clock
  BY <1>2 DEF Clock
<1>4. Alone /\ Lifecycle /\ Unreached /\ Pending /\ Since /\ Reached /\ Retries
  BY <1>2 DEF Alone, Lifecycle, Unreached, Pending, Since, Reached, Retries
<1>5. OnlyUnreadOrNoiseIsLost
  BY <1>2 DEF OnlyUnreadOrNoiseIsLost, Lost, BehindWatermark
<1> QED
  BY <1>1, <1>3, <1>4, <1>5 DEF IInv

\* A change at a source is later than all that was read and completed.
LEMMA SourceSteps ==
  ASSUME IInv, NEW r \in Refs, Edit(r) \/ Show(r)
  PROVE  IInv'
<1> USE DEF IInv
<1>1. /\ now' = now + 1
      /\ UNCHANGED <<stored, rows, pc, work>>
      /\ edited' \in [Refs -> Nat] /\ shown' \in [Refs -> Nat]
      /\ \A s \in Refs : /\ edited'[s] = edited[s] \/ edited'[s] = now'
                         /\ shown'[s] = shown[s] \/ shown'[s] = now'
      /\ now \in Nat
  BY DEF TypeOK, Edit, Show, Tick
<1>0. /\ \A s \in Refs : /\ edited[s] \in Nat /\ edited'[s] \in Nat
                         /\ edited[s] =< edited'[s] /\ shown[s] \in Nat
      /\ \A b \in Batches : work[b].since \in Nat /\ rows[b].completed \in Nat
      /\ \A b \in Batches : rows[b].completed < now'
      /\ \A b \in Batches, s \in Refs : /\ work[b].readAt[s] \in Nat
                                       /\ work[b].readAt[s] < now'
  BY <1>1 DEF TypeOK, Clock, Work, Row
<1>2. TypeOK'
  BY <1>1 DEF TypeOK, Work
<1>3. Clock'
  BY <1>1 DEF TypeOK, Clock, Work, Row
<1>4. Alone' /\ Lifecycle' /\ Unreached'
  BY <1>1 DEF Alone, Lifecycle, Unreached, Alive
<1>5. Pending'
  <2> SUFFICES ASSUME NEW b \in Batches, Alive(b), NEW s \in work[b].pending
               PROVE  /\ work[b].since < edited'[s]
                      /\ work[b].got[s] = edited'[s] \/ work[b].readAt[s] < edited'[s]
    BY <1>1 DEF Pending, Alive
  <2>1. s \in Refs
    BY DEF TypeOK, Work
  <2> QED
    BY <1>0, <1>1, <2>1 DEF Pending
<1>6. Since' /\ Retries'
  BY <1>1 DEF Since, Retries, Alive, Succeeded
<1>7. Reached'
  <2> SUFFICES ASSUME NEW b \in Batches, Alive(b), rows[b] # NoRow, ~work[b].failed,
                      NEW s \in Refs \ work[b].unread
               PROVE  \/ s \in work[b].pending
                      \/ edited'[s] =< work[b].since
                      \/ shown'[s] = 0
                      \/ stored[s] = edited'[s]
                      \/ work[b].readAt[s] < edited'[s]
                      \/ work[b].readAt[s] < shown'[s]
                      \/ s \in work[b].noise
    BY <1>1 DEF Reached, Alive
  <2> QED
    BY <1>0, <1>1 DEF Reached
<1>8. OnlyUnreadOrNoiseIsLost'
  <2> SUFFICES ASSUME NEW s \in Refs, Lost(s)'
               PROVE  \E b \in Batches :
                        /\ Succeeded(b)
                        /\ edited'[s] =< rows[b].completed
                        /\ \/ work[b].readAt[s] < edited'[s]
                           \/ work[b].readAt[s] < shown'[s]
                           \/ s \in work[b].noise
    BY <1>1 DEF OnlyUnreadOrNoiseIsLost, Succeeded
  <2>1. PICK c \in Batches : Succeeded(c) /\ edited'[s] =< rows[c].completed
    BY <1>1 DEF Lost, BehindWatermark, Succeeded
  <2>2. edited'[s] = edited[s]
    BY <1>0, <1>1, <2>1
  <2>3. CASE shown'[s] = shown[s]
    <3>1. Lost(s)
      BY <1>1, <2>1, <2>2, <2>3 DEF Lost, BehindWatermark
    <3> QED
      BY <2>2, <2>3, <3>1 DEF OnlyUnreadOrNoiseIsLost
  <2>4. CASE shown'[s] = now'
    BY <1>0, <2>1, <2>4
  <2> QED
    BY <1>1, <2>3, <2>4
<1> QED
  BY <1>2, <1>3, <1>4, <1>5, <1>6, <1>7, <1>8

\* The steps of the extractors change only what b has read and extracted.
LEMMA ReadingSteps ==
  ASSUME IInv, NEW b \in Batches, NEW r \in Refs,
         Read(b, r) \/ DropNoise(b, r) \/ SkipUnreadable(b, r) \/ ExtractFails(b, r) \/ Stop(b)
  PROVE  IInv'
<1> USE DEF IInv
<1>1. /\ UNCHANGED <<now, edited, shown, stored, rows, pc>>
      /\ Alive(b)
  BY DEF Read, DropNoise, SkipUnreadable, ExtractFails, Stop
<1>2. /\ work' \in [Batches -> Work]
      /\ \A c \in Batches \ {b} : work'[c] = work[c]
      /\ work'[b].since = work[b].since
      /\ work'[b].unread \subseteq work[b].unread
  BY ReadWork, DropWork, SkipWork, ExtractFailsWork, StopWork
<1>3. \A s \in Refs : work'[b].readAt[s] =< now
  BY ReadWork, DropWork, SkipWork, ExtractFailsWork, StopWork DEF Clock, TypeOK
<1>4. \A s \in work'[b].unread : work'[b].readAt[s] = 0 /\ s \notin work'[b].pending
  <2>1. CASE Read(b, r)
    <3>1. /\ work'[b].unread = work[b].unread \ {r}
          /\ work'[b].pending \subseteq work[b].pending \cup {r}
          /\ \A s \in Refs \ {r} : work'[b].readAt[s] = work[b].readAt[s]
      BY <2>1, ReadWork
    <3>2. work[b].unread \subseteq Refs
      BY DEF TypeOK, Work
    <3> QED
      BY <3>1, <3>2 DEF Unreached
  <2>2. CASE DropNoise(b, r)
    <3>1. /\ work'[b].unread = work[b].unread \ {r}
          /\ work'[b].pending = work[b].pending
          /\ \A s \in Refs \ {r} : work'[b].readAt[s] = work[b].readAt[s]
      BY <2>2, DropWork
    <3>2. work[b].unread \subseteq Refs
      BY DEF TypeOK, Work
    <3> QED
      BY <3>1, <3>2 DEF Unreached
  <2>3. CASE SkipUnreadable(b, r) \/ ExtractFails(b, r) \/ Stop(b)
    BY <2>3, SkipWork, ExtractFailsWork, StopWork DEF Unreached
  <2> QED
    BY <2>1, <2>2, <2>3
<1>5. \A s \in work'[b].pending :
        /\ work[b].since < edited[s]
        /\ work'[b].got[s] = edited[s] \/ work'[b].readAt[s] < edited[s]
  <2>1. \A s \in work[b].pending :
          /\ s \in Refs
          /\ work[b].since < edited[s]
          /\ work[b].got[s] = edited[s] \/ work[b].readAt[s] < edited[s]
    BY <1>1 DEF Pending, TypeOK, Work
  <2>2. CASE Read(b, r)
    <3>1. r \notin work[b].pending
      BY <2>2 DEF Read, Unreached
    <3>2. edited[r] \in Nat /\ work[b].since \in Nat
      BY DEF TypeOK, Work
    <3> QED
      BY <2>1, <2>2, <3>1, <3>2, ReadWork
  <2>3. CASE DropNoise(b, r)
    <3>1. r \notin work[b].pending
      BY <2>3 DEF DropNoise, Unreached
    <3>2. \A s \in Refs \ {r} : work'[b].readAt[s] = work[b].readAt[s]
      BY <2>3, DropWork
    <3> QED
      BY <2>1, <2>3, <3>1, <3>2, DropWork
  <2>4. CASE SkipUnreadable(b, r) \/ ExtractFails(b, r) \/ Stop(b)
    BY <2>1, <2>4, SkipWork, ExtractFailsWork, StopWork
  <2> QED
    BY <2>2, <2>3, <2>4
<1>6. rows[b] # NoRow /\ ~work'[b].failed =>
        \A s \in Refs \ work'[b].unread :
          \/ s \in work'[b].pending
          \/ edited[s] =< work[b].since
          \/ shown[s] = 0
          \/ stored[s] = edited[s]
          \/ work'[b].readAt[s] < edited[s]
          \/ work'[b].readAt[s] < shown[s]
          \/ s \in work'[b].noise
  <2>1. rows[b] # NoRow /\ ~work[b].failed =>
          \A s \in Refs \ work[b].unread :
            \/ s \in work[b].pending
            \/ edited[s] =< work[b].since
            \/ shown[s] = 0
            \/ stored[s] = edited[s]
            \/ work[b].readAt[s] < edited[s]
            \/ work[b].readAt[s] < shown[s]
            \/ s \in work[b].noise
    BY <1>1 DEF Reached
  <2>2. CASE Read(b, r)
    <3>1. edited[r] \in Nat /\ work[b].since \in Nat /\ shown[r] \in Nat
      BY DEF TypeOK, Work
    <3>2. r \in work[b].unread
      BY <2>2 DEF Read
    <3>3. \/ r \in work'[b].pending
          \/ edited[r] =< work[b].since
          \/ shown[r] = 0
      BY <2>2, <3>1, ReadWork
    <3>4. ASSUME rows[b] # NoRow, ~work'[b].failed, NEW s \in (Refs \ work'[b].unread) \ {r}
          PROVE  \/ s \in work'[b].pending
                 \/ edited[s] =< work[b].since
                 \/ shown[s] = 0
                 \/ stored[s] = edited[s]
                 \/ work'[b].readAt[s] < edited[s]
                 \/ work'[b].readAt[s] < shown[s]
                 \/ s \in work'[b].noise
      <4>1. rows[b] # NoRow /\ ~work[b].failed /\ s \in Refs \ work[b].unread
        BY <2>2, <3>4, ReadWork
      <4>2. work[b].pending \subseteq work'[b].pending
        BY <2>2, ReadWork
      <4>3. work'[b].readAt[s] = work[b].readAt[s]
        BY <2>2, <3>4, ReadWork
      <4>4. work'[b].noise = work[b].noise
        BY <2>2, ReadWork
      <4> QED
        BY <2>1, <4>1, <4>2, <4>3, <4>4
    <3> QED
      BY <3>3, <3>4
  <2>3. CASE SkipUnreadable(b, r)
    <3>1. shown[r] \in Nat /\ shown[r] > 0 /\ work[b].readAt[r] = 0
      BY <2>3 DEF TypeOK, SkipUnreadable, Unreached
    <3> QED
      BY <2>1, <2>3, <3>1, SkipWork
  <2>4. CASE ExtractFails(b, r) \/ Stop(b)
    BY <2>4, ExtractFailsWork, StopWork
  <2>5. CASE DropNoise(b, r)
    <3>1. \A s \in Refs \ {r} : work'[b].readAt[s] = work[b].readAt[s]
      BY <2>5, DropWork
    <3>2. r \in work'[b].noise /\ work[b].noise \subseteq work'[b].noise
      BY <2>5, DropWork
    <3> QED
      BY <2>1, <2>5, <3>1, <3>2, DropWork
  <2> QED
    BY <2>2, <2>3, <2>4, <2>5
<1>7. TypeOK'
  BY <1>1, <1>2 DEF TypeOK
<1>8. Clock'
  BY <1>1, <1>2, <1>3 DEF Clock
<1>9. Alone' /\ Lifecycle'
  BY <1>1, <1>2 DEF Alone, Lifecycle, Alive
<1>10. Unreached'
  BY <1>2, <1>4 DEF Unreached
<1>11. Pending'
  BY <1>1, <1>2, <1>5 DEF Pending, Alive
<1>12. Since'
  BY <1>1, <1>2 DEF Since, Alive, Succeeded
<1>13. Reached'
  BY <1>1, <1>2, <1>6 DEF Reached, Alive
<1>14. Retries'
  BY <1>1, <1>2 DEF Retries, Succeeded
<1>15. OnlyUnreadOrNoiseIsLost'
  BY <1>1, <1>2
  DEF OnlyUnreadOrNoiseIsLost, Lost, BehindWatermark, Succeeded, Lifecycle, Alive
<1> QED
  BY <1>7, <1>8, <1>9, <1>10, <1>11, <1>12, <1>13, <1>14, <1>15

\* What waits to be stored is newer than every success, so that neither its
\* storing nor its loss makes a ref lost.
LEMMA ProcessSteps ==
  ASSUME IInv, NEW b \in Batches, NEW r \in Refs, Process(b, r) \/ ProcessFails(b, r)
  PROVE  IInv'
<1> USE DEF IInv
<1>1. /\ UNCHANGED <<now, edited, shown, rows, pc>>
      /\ Alive(b) /\ r \in work[b].pending
      /\ \A s \in Refs \ {r} : stored'[s] = stored[s]
      /\ stored' \in [Refs -> Nat]
      /\ Process(b, r) => stored'[r] = work[b].got[r]
  BY DEF TypeOK, Work, Process, ProcessFails
<1>2. /\ work' \in [Batches -> Work]
      /\ \A c \in Batches \ {b} : work'[c] = work[c]
      /\ work'[b].since = work[b].since
      /\ work'[b].unread = work[b].unread
      /\ work'[b].readAt = work[b].readAt
      /\ work'[b].noise = work[b].noise
      /\ work'[b].got = work[b].got
      /\ work'[b].pending = work[b].pending \ {r}
      /\ Process(b, r) => work'[b].failed = work[b].failed
      /\ ProcessFails(b, r) => work'[b].failed
  BY ProcessWork, ProcessFailsWork
<1>3. /\ work[b].since < edited[r]
      /\ work[b].got[r] = edited[r] \/ work[b].readAt[r] < edited[r]
  BY <1>1 DEF Pending
<1>4. TypeOK'
  BY <1>1, <1>2 DEF TypeOK
<1>5. Clock' /\ Alone' /\ Lifecycle' /\ Unreached'
  BY <1>1, <1>2 DEF Clock, Alone, Lifecycle, Unreached, Alive
<1>6. Pending'
  BY <1>1, <1>2 DEF Pending, Alive
<1>7. Since' /\ Retries'
  BY <1>1, <1>2 DEF Since, Retries, Alive, Succeeded
<1>8. Reached'
  <2> SUFFICES ASSUME NEW c \in Batches, Alive(c), rows[c] # NoRow, ~work'[c].failed,
                      NEW s \in Refs \ work'[c].unread
               PROVE  \/ s \in work'[c].pending
                      \/ edited[s] =< work'[c].since
                      \/ shown[s] = 0
                      \/ stored'[s] = edited[s]
                      \/ work'[c].readAt[s] < edited[s]
                      \/ work'[c].readAt[s] < shown[s]
                      \/ s \in work'[c].noise
    BY <1>1 DEF Reached, Alive
  <2>1. c = b
    BY <1>1 DEF Alone
  <2>2. Process(b, r)
    BY <1>2, <2>1
  <2>3. CASE s = r
    BY <1>1, <1>2, <1>3, <2>1, <2>2, <2>3
  <2>4. CASE s # r
    BY <1>1, <1>2, <2>1, <2>2, <2>4 DEF Reached
  <2> QED
    BY <2>3, <2>4
<1>9. OnlyUnreadOrNoiseIsLost'
  <2> SUFFICES ASSUME NEW s \in Refs, Lost(s)'
               PROVE  \E c \in Batches :
                        /\ Succeeded(c)
                        /\ edited[s] =< rows[c].completed
                        /\ \/ work'[c].readAt[s] < edited[s]
                           \/ work'[c].readAt[s] < shown[s]
                           \/ s \in work'[c].noise
    BY <1>1 DEF OnlyUnreadOrNoiseIsLost, Succeeded
  <2>1. PICK c \in Batches : Succeeded(c) /\ edited[s] =< rows[c].completed
    BY <1>1 DEF Lost, BehindWatermark, Succeeded
  <2>2. edited[s] =< work[b].since
    <3>1. rows[c].completed =< work[b].since
      BY <1>1, <2>1 DEF Since
    <3> QED
      BY <2>1, <3>1 DEF TypeOK, Work, Row
  <2>3. s # r
    BY <1>3, <2>2 DEF TypeOK, Work
  <2>4. Lost(s)
    BY <1>1, <2>1, <2>3 DEF Lost, BehindWatermark
  <2> QED
    BY <1>2, <2>4 DEF OnlyUnreadOrNoiseIsLost
<1> QED
  BY <1>4, <1>5, <1>6, <1>7, <1>8, <1>9

\* A run begins from the completion time of the last success.
LEMMA BeginSteps ==
  ASSUME IInv, ~Overlap, NEW b \in Batches, Begin(b)
  PROVE  IInv'
<1> USE DEF IInv
<1>1. PICK w \in {0} \cup {rows[c].completed : c \in Batches} :
        /\ IsWatermark(w)
        /\ work' = [work EXCEPT ![b].since = w]
  BY DEF Begin
<1>2. w \in Nat
  BY DEF TypeOK, Row
<1>3. /\ UNCHANGED <<now, edited, shown, stored>>
      /\ pc[b] = "unborn"
      /\ rows[b] = NoRow
      /\ \A c \in Batches : pc'[c] = IF c = b THEN "running" ELSE pc[c]
      /\ \A c \in Batches : rows'[c] = IF c = b THEN [status |-> "running", completed |-> 0]
                                      ELSE rows[c]
      /\ pc' \in [Batches -> {"unborn", "running", "gone"}]
      /\ rows' \in [Batches -> Row]
  BY DEF Begin, Lifecycle, TypeOK, Row, Status
<1>4. /\ work' \in [Batches -> Work]
      /\ \A c \in Batches \ {b} : work'[c] = work[c]
      /\ work'[b].since = w
      /\ work'[b].unread = work[b].unread
      /\ work'[b].readAt = work[b].readAt
      /\ work'[b].noise = work[b].noise
      /\ work'[b].pending = work[b].pending
  <2>1. work[b] \in Work
    BY DEF TypeOK
  <2> QED
    BY <1>1, <1>2, <2>1 DEF TypeOK, Work
<1>5. /\ work[b].unread = Refs
      /\ work[b].pending = {}
  BY <1>3 DEF Lifecycle, Unreached, TypeOK, Work
<1>6. /\ \A c \in Batches : ~Alive(c)
      /\ \A c \in Batches : Alive(c)' <=> c = b
  BY <1>3 DEF Begin, Alive
<1>7. \A c \in Batches : Succeeded(c)' <=> Succeeded(c)
  BY <1>3 DEF Succeeded, NoRow
<1>8. \A c \in Batches : rows'[c].completed = rows[c].completed
  BY <1>3 DEF NoRow
<1>9. TypeOK'
  BY <1>3, <1>4 DEF TypeOK
<1>10. Clock' /\ Alone' /\ Lifecycle' /\ Unreached'
  <2>1. Clock'
    BY <1>3, <1>4, <1>8 DEF Clock
  <2>2. Alone'
    BY <1>6 DEF Alone
  <2>3. Lifecycle'
    BY <1>3, <1>4 DEF Lifecycle
  <2>4. Unreached'
    BY <1>4 DEF Unreached
  <2> QED
    BY <2>1, <2>2, <2>3, <2>4
<1>11. Pending' /\ Reached'
  BY <1>4, <1>5, <1>6 DEF Pending, Reached
<1>12. Since'
  <2>1. \A c \in Batches : Succeeded(c) => rows[c].completed =< w
    BY <1>1 DEF IsWatermark
  <2>2. w = 0 \/ \E c \in Batches : Succeeded(c) /\ w =< rows[c].completed
    BY <1>1, <1>2 DEF IsWatermark
  <2> QED
    BY <1>4, <1>6, <1>7, <1>8, <2>1, <2>2 DEF Since
<1>13. Retries'
  <2>1. \A c \in Batches : rows'[c].status = "other" => c # b /\ rows[c].status = "other"
    BY <1>3
  <2> QED
    BY <1>4, <1>7, <1>8, <2>1 DEF Retries
<1>14. OnlyUnreadOrNoiseIsLost'
  <2>1. \A s \in Refs : Lost(s)' => Lost(s)
    BY <1>3, <1>7, <1>8 DEF Lost, BehindWatermark
  <2>2. \A c \in Batches : Succeeded(c) => c # b
    BY <1>3 DEF Succeeded, NoRow
  <2> QED
    BY <1>3, <1>4, <1>7, <1>8, <2>1, <2>2 DEF OnlyUnreadOrNoiseIsLost
<1> QED
  BY <1>9, <1>10, <1>11, <1>12, <1>13, <1>14

\* The end of a run whose row is still there: it is later than every change,
\* and a success leaves nothing lost but what it has not read, or has dropped.
LEMMA FinishRecords ==
  ASSUME IInv, NEW b \in Batches, Finish(b), rows[b] # NoRow
  PROVE  IInv'
<1> USE DEF IInv
<1>1. PICK status \in IF work[b].failed THEN {"other"} ELSE {"success", "other"} :
        rows' = [rows EXCEPT ![b] = [status |-> status, completed |-> now']]
  BY DEF Finish
<1>2. /\ UNCHANGED <<edited, shown, stored, work>>
      /\ now \in Nat /\ now' = now + 1
      /\ pc[b] = "running" /\ work[b].unread = {} /\ work[b].pending = {}
      /\ \A c \in Batches : pc'[c] = IF c = b THEN "gone" ELSE pc[c]
      /\ pc' \in [Batches -> {"unborn", "running", "gone"}]
  BY DEF Finish, Tick, Alive, TypeOK
<1>3. /\ \A c \in Batches \ {b} : rows'[c] = rows[c]
      /\ rows'[b].status = status
      /\ rows'[b].completed = now'
      /\ status \in {"success", "other"}
      /\ status = "success" => ~work[b].failed
      /\ rows' \in [Batches -> Row]
  BY <1>1, <1>2 DEF TypeOK, Row, Status
<1>4. /\ ~Succeeded(b)
      /\ \A c \in Batches \ {b} : Succeeded(c)' <=> Succeeded(c)
      /\ Succeeded(b)' <=> status = "success"
  BY <1>2, <1>3 DEF Succeeded, Lifecycle
<1>5. \A c \in Batches : ~Alive(c)'
  BY <1>2 DEF Alone, Alive
<1>6. \A c \in Batches : rows[c].completed \in Nat /\ rows[c].completed < now'
  BY <1>2 DEF Clock, TypeOK, Row
<1>7. TypeOK'
  BY <1>2, <1>3 DEF TypeOK
<1>8. Clock'
  <2>1. \A s \in Refs : edited[s] \in Nat /\ shown[s] \in Nat
    BY DEF TypeOK
  <2>2. \A c \in Batches, s \in Refs : work[c].readAt[s] \in Nat
    BY DEF TypeOK, Work
  <2>3. \A c \in Batches : rows'[c].completed =< now'
    BY <1>2, <1>3, <1>6
  <2> QED
    BY <1>2, <2>1, <2>2, <2>3 DEF Clock
<1>9. Alone' /\ Unreached' /\ Pending' /\ Since' /\ Reached'
  BY <1>2, <1>5 DEF Alone, Unreached, Pending, Since, Reached
<1>10. Lifecycle'
  BY <1>2, <1>3 DEF Lifecycle
<1>11. Retries'
  <2> SUFFICES ASSUME NEW d \in Batches, NEW c \in Batches,
                      rows'[d].status = "other",
                      \A e \in Batches : rows'[e].completed =< rows'[d].completed,
                      Succeeded(c)'
               PROVE  rows'[c].completed =< work[d].since
    BY <1>2 DEF Retries
  <2>1. d = b
    <3>1. now' =< rows'[d].completed
      BY <1>3
    <3> QED
      BY <1>2, <1>3, <1>6, <3>1
  <2>2. c # b /\ Succeeded(c)
    BY <1>3, <1>4, <2>1
  <2> QED
    BY <1>2, <1>3, <2>1, <2>2 DEF Since, Alive
<1>12. OnlyUnreadOrNoiseIsLost'
  <2> SUFFICES ASSUME NEW s \in Refs, Lost(s)'
               PROVE  \E c \in Batches :
                        /\ Succeeded(c)'
                        /\ edited[s] =< rows'[c].completed
                        /\ \/ work[c].readAt[s] < edited[s]
                           \/ work[c].readAt[s] < shown[s]
                           \/ s \in work[c].noise
    BY <1>2 DEF OnlyUnreadOrNoiseIsLost
  <2>1. /\ edited[s] \in Nat /\ shown[s] \in Nat /\ edited[s] < now'
        /\ shown[s] > 0 /\ edited[s] > 0 /\ stored[s] # edited[s]
        /\ work[b].since \in Nat
    BY <1>2 DEF Lost, Clock, TypeOK, Work
  <2>2. CASE BehindWatermark(edited[s])
    <3>1. Lost(s)
      BY <2>1, <2>2 DEF Lost
    <3> QED
      BY <1>3, <1>4, <3>1 DEF OnlyUnreadOrNoiseIsLost
  <2>3. CASE ~BehindWatermark(edited[s])
    <3>1. status = "success"
      BY <1>2, <1>3, <1>4, <2>3 DEF Lost, BehindWatermark
    <3>2. ~(edited[s] =< work[b].since)
      <4> SUFFICES ASSUME edited[s] =< work[b].since PROVE FALSE
        OBVIOUS
      <4>1. PICK c \in Batches : Succeeded(c) /\ work[b].since =< rows[c].completed
        BY <1>2, <2>1 DEF Since, Alive
      <4>2. edited[s] =< rows[c].completed
        BY <1>6, <2>1, <4>1
      <4> QED
        BY <2>3, <4>1, <4>2 DEF BehindWatermark
    <3>3. work[b].readAt[s] < edited[s] \/ work[b].readAt[s] < shown[s] \/ s \in work[b].noise
      BY <1>2, <1>3, <2>1, <3>1, <3>2 DEF Reached, Alive
    <3>4. edited[s] =< rows'[b].completed
      BY <1>2, <1>3, <2>1
    <3> QED
      BY <1>4, <3>1, <3>3, <3>4
  <2> QED
    BY <2>2, <2>3
<1> QED
  BY <1>7, <1>8, <1>9, <1>10, <1>11, <1>12

\* A run whose row was reset away ends without a trace, as does a killed one.
LEMMA VanishSteps ==
  ASSUME IInv, NEW b \in Batches, Crash(b) \/ (Finish(b) /\ rows[b] = NoRow)
  PROVE  IInv'
<1> USE DEF IInv
<1>1. /\ UNCHANGED <<edited, shown, stored, rows, work>>
      /\ now \in Nat /\ now' \in Nat /\ now =< now'
      /\ pc[b] = "running"
      /\ \A c \in Batches : pc'[c] = IF c = b THEN "gone" ELSE pc[c]
      /\ pc' \in [Batches -> {"unborn", "running", "gone"}]
  BY DEF Crash, Finish, Tick, Alive, TypeOK
<1>2. \A c \in Batches : ~Alive(c)'
  BY <1>1 DEF Alone, Alive
<1>3. TypeOK'
  BY <1>1 DEF TypeOK
<1>4. Clock'
  BY <1>1 DEF Clock, TypeOK, Work, Row
<1>5. Alone' /\ Unreached' /\ Pending' /\ Since' /\ Reached' /\ Lifecycle'
  BY <1>1, <1>2 DEF Alone, Unreached, Pending, Since, Reached, Lifecycle
<1>6. Retries' /\ OnlyUnreadOrNoiseIsLost'
  BY <1>1 DEF Retries, OnlyUnreadOrNoiseIsLost, Lost, BehindWatermark, Succeeded
<1> QED
  BY <1>3, <1>4, <1>5, <1>6

\* After a reset there is no success, and so nothing behind the watermark.
LEMMA ResetSteps ==
  ASSUME IInv, Reset
  PROVE  IInv'
<1> USE DEF IInv
<1>1. /\ UNCHANGED <<now, edited, shown, pc, work>>
      /\ stored' \in [Refs -> Nat]
      /\ rows' \in [Batches -> Row]
      /\ \A b \in Batches : rows'[b] = NoRow
  BY DEF Reset, Nothing, Row, Status, NoRow
<1>2. \A b \in Batches : ~Succeeded(b)' /\ rows'[b].status = "none" /\ rows'[b].completed = 0
  BY <1>1 DEF Succeeded, NoRow
<1>3. TypeOK'
  BY <1>1 DEF TypeOK
<1>4. Clock'
  BY <1>1, <1>2 DEF Clock, TypeOK
<1>5. Alone' /\ Unreached' /\ Pending' /\ Lifecycle'
  BY <1>1, <1>2 DEF Alone, Unreached, Pending, Lifecycle, Alive
<1>6. Since' /\ Retries' /\ OnlyUnreadOrNoiseIsLost'
  BY <1>1, <1>2 DEF Since, Retries, OnlyUnreadOrNoiseIsLost, Lost, BehindWatermark
<1>7. Reached'
  BY <1>1, <1>2 DEF Reached
<1> QED
  BY <1>3, <1>4, <1>5, <1>6, <1>7

\* Every step, and every stutter, keeps the invariant.
LEMMA StepHolds ==
  ASSUME ~Overlap, IInv, [Next]_vars
  PROVE  IInv'
<1>1. ASSUME NEW r \in Refs, Edit(r) \/ Show(r) PROVE IInv'
  BY <1>1, SourceSteps
<1>2. ASSUME NEW b \in Batches, Begin(b) PROVE IInv'
  BY <1>2, BeginSteps
<1>3. ASSUME NEW b \in Batches, NEW r \in Refs,
             Read(b, r) \/ DropNoise(b, r) \/ SkipUnreadable(b, r) \/ ExtractFails(b, r)
      PROVE  IInv'
  BY <1>3, ReadingSteps
<1>4. ASSUME NEW b \in Batches, Stop(b) PROVE IInv'
  <2>1. CASE Refs = {}
    <3>1. /\ UNCHANGED <<now, edited, shown, stored, rows, pc>>
          /\ work' \in [Batches -> Work]
          /\ \A c \in Batches : work'[c].since = work[c].since
      BY <1>4, StopWork DEF Stop, IInv
    <3>2. TypeOK' /\ Clock'
      BY <2>1, <3>1 DEF IInv, TypeOK, Clock
    <3>3. Unreached' /\ Pending' /\ Reached' /\ OnlyUnreadOrNoiseIsLost'
      BY <2>1, <3>1 DEF Unreached, Pending, Reached, OnlyUnreadOrNoiseIsLost, Work
    <3>4. Alone' /\ Since' /\ Retries'
      BY <3>1 DEF IInv, Alone, Since, Retries, Alive, Succeeded
    <3>5. Lifecycle'
      BY <2>1, <3>1 DEF IInv, Lifecycle, Work
    <3> QED
      BY <3>2, <3>3, <3>4, <3>5 DEF IInv
  <2>2. CASE Refs # {}
    BY <1>4, <2>2, ReadingSteps
  <2> QED
    BY <2>1, <2>2
<1>5. ASSUME NEW b \in Batches, NEW r \in Refs, Process(b, r) \/ ProcessFails(b, r)
      PROVE  IInv'
  BY <1>5, ProcessSteps
<1>6. ASSUME NEW b \in Batches, Finish(b) PROVE IInv'
  BY <1>6, FinishRecords, VanishSteps
<1>7. ASSUME NEW b \in Batches, Crash(b) PROVE IInv'
  BY <1>7, VanishSteps
<1>8. CASE Reset
  BY <1>8, ResetSteps
<1>9. CASE UNCHANGED vars
  BY <1>9 DEF IInv, vars, TypeOK, Clock, Alone, Lifecycle, Unreached, Pending, Since,
              Reached, Retries, OnlyUnreadOrNoiseIsLost, Lost, BehindWatermark, Alive, Succeeded
<1> QED
  BY <1>1, <1>2, <1>3, <1>4, <1>5, <1>6, <1>7, <1>8, <1>9 DEF Next, Run

-----------------------------------------------------------------------------
(* The theorems.                                                           *)

\* When runs follow one another, the invariant holds throughout.
THEOREM Invariance == ~Overlap => (Spec => []IInv)
<1> SUFFICES ASSUME ~Overlap PROVE Spec => []IInv
  OBVIOUS
<1>1. Init => IInv
  BY InitHolds
<1>2. IInv /\ [Next]_vars => IInv'
  BY StepHolds
<1> QED
  BY <1>1, <1>2, PTL DEF Spec

\* When runs follow one another, a change at a source escapes the store for
\* good only if a run ended in success that did not read it, or that read a text it
\* dropped as blank or too short: no failure, stop, kill or reset loses one, however
\* many runs and sources there are.
THEOREM OnlyUnreadOrNoiseIsEverLost == ~Overlap => (Spec => []OnlyUnreadOrNoiseIsLost)
<1>1. IInv => OnlyUnreadOrNoiseIsLost
  BY DEF IInv
<1> QED
  BY <1>1, Invariance, PTL

\* When runs follow one another, the run after a failed or stopped one looks
\* at least as far back as that one did.
THEOREM EveryFailedRunIsRetried == ~Overlap => (Spec => FailedRunsAreRetried)
<1> SUFFICES ASSUME ~Overlap PROVE Spec => FailedRunsAreRetried
  OBVIOUS
<1>1. ASSUME IInv, [Next]_vars,
             NEW b \in Batches, NEW c \in Batches,
             pc[c] = "unborn", pc'[c] = "running",
             rows[b].status = "other",
             \A d \in Batches : rows[d].completed =< rows[b].completed
      PROVE  work'[c].since =< work[b].since
  <2>1. Begin(c)
    <3>1. ASSUME NEW d \in Batches, Begin(d) PROVE Begin(c)
      <4>1. c = d
        BY <1>1, <3>1 DEF Begin, IInv, TypeOK
      <4> QED
        BY <3>1, <4>1
    <3>2. ASSUME NEW d \in Batches, Finish(d) \/ Crash(d) PROVE FALSE
      BY <1>1, <3>2 DEF Finish, Crash, IInv, TypeOK
    <3>3. CASE UNCHANGED pc
      BY <1>1, <3>3
    <3>4. ASSUME NEW d \in Batches, NEW r \in Refs,
                 Read(d, r) \/ DropNoise(d, r) \/ SkipUnreadable(d, r) \/ ExtractFails(d, r)
                   \/ Process(d, r) \/ ProcessFails(d, r)
          PROVE  UNCHANGED pc
      BY <3>4 DEF Read, DropNoise, SkipUnreadable, ExtractFails, Process, ProcessFails
    <3>5. ASSUME NEW d \in Batches, Stop(d) PROVE UNCHANGED pc
      BY <3>5 DEF Stop
    <3>6. ASSUME NEW r \in Refs, Edit(r) \/ Show(r) PROVE UNCHANGED pc
      BY <3>6 DEF Edit, Show
    <3>7. Reset \/ UNCHANGED vars => UNCHANGED pc
      BY DEF Reset, vars
    <3> QED
      BY <1>1, <3>1, <3>2, <3>3, <3>4, <3>5, <3>6, <3>7 DEF Next, Run
  <2>2. PICK w \in {0} \cup {rows[d].completed : d \in Batches} :
          IsWatermark(w) /\ work' = [work EXCEPT ![c].since = w]
    BY <2>1 DEF Begin
  <2>3. work'[c].since = w
    BY <1>1, <2>2 DEF IInv, TypeOK, Work
  <2>4. w =< work[b].since
    <3>1. work[b].since \in Nat
      BY <1>1 DEF IInv, TypeOK, Work
    <3> QED
      BY <1>1, <2>2, <3>1 DEF IInv, IsWatermark, Retries
  <2> QED
    BY <2>3, <2>4
<1>2. IInv /\ [Next]_vars =>
        [\A b, c \in Batches :
           /\ pc[c] = "unborn" /\ pc'[c] = "running"
           /\ rows[b].status = "other"
           /\ \A d \in Batches : rows[d].completed =< rows[b].completed
           => work'[c].since =< work[b].since]_vars
  BY <1>1
<1> QED
  BY <1>2, Invariance, PTL DEF Spec, FailedRunsAreRetried

=============================================================================
