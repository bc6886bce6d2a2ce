----------------------- MODULE ServiceProvider_proofs -----------------------
(***************************************************************************)
(* What a provider lists: nothing that is gone and missed no removal, all  *)
(* that is there, and streams for as long as they last; for any number of  *)
(* services, addresses, notifications and answers.                         *)
(***************************************************************************)
EXTENDS ServiceProvider, FiniteSetTheorems, FunctionTheorems, SequenceTheorems,
        WellFoundedInduction, TLAPS

(* Sequences. *)

\* A function over the places of a sequence is a sequence of the same length.
LEMMA SamePlaces ==
    ASSUME NEW S, NEW T, NEW s \in Seq(S), NEW t \in [DOMAIN s -> T]
    PROVE  t \in Seq(T) /\ Len(t) = Len(s) /\ DOMAIN t = DOMAIN s
  <1>1. Len(s) \in Nat /\ DOMAIN s = 1 .. Len(s)
    BY LenProperties
  <1>2. t \in Seq(T)
    BY <1>1, SeqDef
  <1> QED BY <1>1, <1>2, LenProperties

\* RemoveAt takes one element out and keeps the others.
LEMMA RemoveAtKeeps ==
    ASSUME NEW S, NEW s \in Seq(S), NEW i \in DOMAIN s
    PROVE  /\ RemoveAt(s, i) \in Seq(S)
           /\ \A j \in DOMAIN RemoveAt(s, i) :
                  \E k \in DOMAIN s : k # i /\ RemoveAt(s, i)[j] = s[k]
           /\ \A k \in DOMAIN s :
                  k # i => \E j \in DOMAIN RemoveAt(s, i) : RemoveAt(s, i)[j] = s[k]
  <1> DEFINE a == SubSeq(s, 1, i - 1)
             b == SubSeq(s, i + 1, Len(s))
  <1>1. Len(s) \in Nat /\ DOMAIN s = 1 .. Len(s) /\ i \in 1 .. Len(s)
    BY LenProperties
  <1>2. a \in Seq(S) /\ Len(a) = i - 1 /\ \A j \in 1 .. i - 1 : a[j] = s[j]
    BY <1>1
  <1>3. b \in Seq(S) /\ Len(b) = Len(s) - i /\ \A j \in 1 .. Len(s) - i : b[j] = s[i + j]
    BY <1>1
  <1> DEFINE r == a \o b
  <1> HIDE DEF a, b
  <1>r. /\ r \in Seq(S) /\ Len(r) = Len(a) + Len(b)
        /\ \A j \in 1 .. Len(a) + Len(b) : r[j] = IF j <= Len(a) THEN a[j] ELSE b[j - Len(a)]
    BY <1>2, <1>3, ConcatProperties
  <1> HIDE DEF r
  <1>4. r \in Seq(S) /\ Len(r) = Len(s) - 1 /\ DOMAIN r = 1 .. Len(s) - 1
    BY <1>1, <1>2, <1>3, <1>r
  <1>5. ASSUME NEW j \in 1 .. Len(s) - 1
        PROVE  r[j] = IF j < i THEN s[j] ELSE s[j + 1]
    <2>1. CASE j < i
      BY <2>1, <1>1, <1>2, <1>3, <1>r, SMTT(30)
    <2>2. CASE j >= i
      <3>1. j - (i - 1) \in 1 .. Len(s) - i /\ i + (j - (i - 1)) = j + 1
        BY <2>2, <1>1
      <3>2. r[j] = b[j - (i - 1)]
        BY <2>2, <1>1, <1>2, <1>3, <1>r, SMTT(30)
      <3> QED BY <2>2, <3>1, <3>2, <1>1, <1>3
    <2> QED BY <2>1, <2>2, <1>1
  <1>6. ASSUME NEW j \in DOMAIN r PROVE \E k \in DOMAIN s : k # i /\ r[j] = s[k]
    <2>1. CASE j < i
      BY <2>1, <1>1, <1>4, <1>5
    <2>2. CASE j >= i
      <3>1. j + 1 \in DOMAIN s /\ j + 1 # i /\ r[j] = s[j + 1]
        BY <2>2, <1>1, <1>4, <1>5
      <3> QED BY <3>1
    <2> QED BY <2>1, <2>2, <1>1, <1>4
  <1>7. ASSUME NEW k \in DOMAIN s, k # i PROVE \E j \in DOMAIN r : r[j] = s[k]
    <2>1. CASE k < i
      BY <2>1, <1>1, <1>4, <1>5
    <2>2. CASE k > i
      <3>1. k - 1 \in DOMAIN r /\ r[k - 1] = s[k]
        BY <2>2, <1>1, <1>4, <1>5
      <3> QED BY <3>1
    <2> QED BY <2>1, <2>2, <1>7, <1>1
  <1>8. RemoveAt(s, i) = r
    BY DEF RemoveAt, a, b, r
  <1> QED BY <1>4, <1>6, <1>7, <1>8

\* Of the places where a name is, one is the first.
LEMMA SomeFirst ==
    ASSUME NEW n, NEW S, sinks \in Seq(S), n \in Listed
    PROVE  First(n) # {} /\ First(n) \subseteq DOMAIN sinks
  <1> DEFINE places == {i \in DOMAIN sinks : sinks[i].name = n}
             before == {1 .. i : i \in places}
  <1>1. places # {} /\ places \subseteq DOMAIN sinks /\ DOMAIN sinks = 1 .. Len(sinks) /\ Len(sinks) \in Nat
    BY LenProperties DEF Listed
  <1>2. before # {} /\ before \subseteq FiniteSubsetsOf(Nat)
    <2>1. ASSUME NEW i \in places PROVE IsFiniteSet(1 .. i) /\ 1 .. i \subseteq Nat
      <3>1. i \in Int /\ 1 \in Int
        BY <1>1
      <3>2. IsFiniteSet(1 .. i)
        BY <3>1, FS_Interval, Zenon
      <3> QED BY <3>1, <3>2
    <2> QED BY <1>1, <2>1 DEF FiniteSubsetsOf
  <1>3. PICK b \in before : \A c \in before : ~ (<<c, b>> \in StrictSubsetOrdering(Nat))
    BY <1>2, FS_StrictSubsetOrderingWellFounded, WFMin
  <1>4. PICK i \in places : b = 1 .. i
    OBVIOUS
  <1>5. ASSUME NEW j \in places, j < i PROVE FALSE
    <2>1. 1 .. j \in before /\ 1 .. j \subseteq b /\ i \in b /\ i \notin 1 .. j
      BY <1>1, <1>4, <1>5
    <2> QED BY <2>1, <1>2, <1>3 DEF StrictSubsetOrdering, FiniteSubsetsOf
  <1>6. i \in First(n)
    BY <1>1, <1>5 DEF First
  <1> QED BY <1>6 DEF First

\* A new subscription reports every service that is announced, and as added.
LEMMA SnapshotCovers ==
    ASSUME NEW n \in Snapshot
    PROVE  /\ n \in Seq(Notes)
           /\ \A i \in DOMAIN n : n[i].flag = "added"
           /\ \A x \in Announced : \E i \in DOMAIN n : n[i] = [flag |-> "added", name |-> x]
  <1>1. PICK s \in SetToSeqs(Announced) : n = [i \in DOMAIN s |-> [flag |-> "added", name |-> s[i]]]
    BY DEF Snapshot
  <1> DEFINE D == 1 .. Cardinality(Announced)
  <1>2. IsFiniteSet(Announced) /\ Announced \subseteq Names
    BY NamesAssumption, FS_Subset DEF Announced
  <1>3. Cardinality(Announced) \in Nat
    BY <1>2, FS_CardinalityType
  <1>4. s \in Injection(D, Announced)
    BY <1>1 DEF SetToSeqs, Injection, IsInjective
  <1>5. IsFiniteSet(D) /\ Cardinality(D) = Cardinality(Announced)
    BY <1>3, FS_Interval
  <1>6. s \in Surjection(D, Announced)
    BY <1>2, <1>4, <1>5, FS_Injection
  <1>7. s \in Seq(Announced) /\ DOMAIN s = D
    BY <1>3, <1>4, SeqDef DEF Injection
  <1>8. n \in [DOMAIN s -> Notes]
    <2>1. \A i \in DOMAIN s : s[i] \in Names
      BY <1>2, <1>4, <1>7 DEF Injection
    <2>2. \A x \in Names : [flag |-> "added", name |-> x] \in Notes
      BY DEF Notes
    <2> QED BY <1>1, <2>1, <2>2
  <1>9. n \in Seq(Notes)
    BY <1>7, <1>8, SamePlaces
  <1>10. \A x \in Announced : \E i \in D : s[i] = x
    BY <1>6 DEF Surjection
  <1> QED BY <1>1, <1>7, <1>9, <1>10
-----------------------------------------------------------------------------
(* The invariant. *)

\* A dropped provider has nothing left; those of Avahi are never dropped.
Dropped ==
    /\ kind = "avahi" => provider
    /\ ~ provider => link = "none" /\ retries = 0 /\ resolving = {} /\ sinks = <<>>

Quiet == link # "live" => notes = <<>>

\* A service that went and is there again will be added after it was removed.
Ordered ==
    \A i \in DOMAIN notes :
        notes[i].flag = "removed" /\ notes[i].name \in Announced =>
            \E j \in DOMAIN notes : j > i /\ notes[j] = [flag |-> "added", name |-> notes[i].name]

Doomed(s) == s.idle \/ s.state # "disconnected"

\* A sink that waits for its removal will be removed.
Deferred == \A i \in DOMAIN sinks : sinks[i].waits => kind # "avahi" /\ Doomed(sinks[i])

IInv == TypeOK /\ Dropped /\ Quiet /\ Ordered /\ Deferred /\ NoGhosts /\ Found

LEMMA InitHolds == Init => IInv
  <1> SUFFICES ASSUME Init PROVE IInv
    OBVIOUS
  <1>1. notes \in Seq(Notes) /\ sinks \in Seq(Sinks) /\ DOMAIN notes = {} /\ DOMAIN sinks = {}
    BY EmptySeq DEF Init
  <1>2. address \in [Names -> Hosts \cup {None}] /\ Announced = {}
    BY DEF Init, Announced
  <1>3. TypeOK
    BY <1>1, <1>2 DEF Init, TypeOK, Links, Notes
  <1>4. Dropped /\ Quiet
    BY DEF Init, Dropped, Quiet
  <1>5. Ordered /\ Deferred /\ NoGhosts /\ Found
    BY <1>1, <1>2 DEF Init, Ordered, Deferred, NoGhosts, Found
  <1> QED BY <1>3, <1>4, <1>5 DEF IInv
-----------------------------------------------------------------------------
(* What an operation does to the sinks. *)

\* A sink, while others are removed.
Follows(t, s) ==
    /\ t.name = s.name /\ t.ip = s.ip /\ t.state = s.state /\ t.idle = s.idle
    /\ s.stray => t.stray
    /\ s.waits => t.waits

LEMMA MissedSinks ==
    ASSUME NEW n, NEW s \in Seq(Sinks)
    PROVE  /\ Missed(n, s) \in Seq(Sinks) /\ DOMAIN Missed(n, s) = DOMAIN s
           /\ \A i \in DOMAIN s :
                  /\ Follows(Missed(n, s)[i], s[i])
                  /\ Missed(n, s)[i].waits = s[i].waits
                  /\ s[i].name = n => Missed(n, s)[i].stray \/ s[i].waits
  <1> DEFINE t == Missed(n, s)
  <1>1. \A i \in DOMAIN s : s[i] \in Sinks
    BY ElementOfSeq, LenProperties
  <1>2. ASSUME NEW i \in DOMAIN s
        PROVE  /\ t[i] = [s[i] EXCEPT !.stray = @ \/ (s[i].name = n /\ ~ s[i].waits)]
               /\ t[i] \in Sinks
    BY <1>1, <1>2 DEF Missed, Sinks
  <1>3. t \in [DOMAIN s -> Sinks]
    BY <1>2 DEF Missed
  <1>4. t \in Seq(Sinks) /\ DOMAIN t = DOMAIN s
    BY <1>3, SamePlaces
  <1>5. ASSUME NEW i \in DOMAIN s
        PROVE  /\ Follows(t[i], s[i]) /\ t[i].waits = s[i].waits
               /\ s[i].name = n => t[i].stray \/ s[i].waits
    BY <1>1, <1>2, <1>5, ZenonT(40) DEF Follows, Sinks
  <1> QED BY <1>4, <1>5

LEMMA TakeOffSinks ==
    ASSUME sinks \in Seq(Sinks), NEW n, NEW i \in DOMAIN sinks, TakeOff(n, i)
    PROVE  /\ sinks' \in Seq(Sinks)
           /\ \A j \in DOMAIN sinks' : \E k \in DOMAIN sinks :
                  /\ Follows(sinks'[j], sinks[k]) /\ sinks'[j].waits = sinks[k].waits
                  /\ sinks[k].name = n => sinks'[j].stray \/ sinks'[j].waits
           /\ \A k \in DOMAIN sinks : k # i => \E j \in DOMAIN sinks' : Follows(sinks'[j], sinks[k])
  <1> DEFINE r == RemoveAt(sinks, i)
  <1>1. /\ r \in Seq(Sinks)
        /\ \A j \in DOMAIN r : \E k \in DOMAIN sinks : k # i /\ r[j] = sinks[k]
        /\ \A k \in DOMAIN sinks : k # i => \E j \in DOMAIN r : r[j] = sinks[k]
    BY RemoveAtKeeps
  <1>2. sinks' = Missed(n, r)
    BY DEF TakeOff
  <1> HIDE DEF r
  <1>3. /\ sinks' \in Seq(Sinks) /\ DOMAIN sinks' = DOMAIN r
        /\ \A j \in DOMAIN r :
               /\ Follows(sinks'[j], r[j]) /\ sinks'[j].waits = r[j].waits
               /\ r[j].name = n => sinks'[j].stray \/ r[j].waits
    BY <1>1, <1>2, MissedSinks
  <1>4. ASSUME NEW j \in DOMAIN sinks'
        PROVE  \E k \in DOMAIN sinks :
                  /\ Follows(sinks'[j], sinks[k]) /\ sinks'[j].waits = sinks[k].waits
                  /\ sinks[k].name = n => sinks'[j].stray \/ sinks'[j].waits
    <2>1. PICK k \in DOMAIN sinks : r[j] = sinks[k]
      BY <1>1, <1>3
    <2> QED BY <1>3, <2>1
  <1>5. ASSUME NEW k \in DOMAIN sinks, k # i
        PROVE  \E j \in DOMAIN sinks' : Follows(sinks'[j], sinks[k])
    <2>1. PICK j \in DOMAIN r : r[j] = sinks[k]
      BY <1>1, <1>5
    <2> QED BY <1>3, <2>1
  <1> QED BY <1>3, <1>4, <1>5

LEMMA OneChanges ==
    ASSUME sinks \in Seq(Sinks), NEW i \in DOMAIN sinks, NEW t \in Sinks
    PROVE  /\ [sinks EXCEPT ![i] = t] \in Seq(Sinks)
           /\ DOMAIN [sinks EXCEPT ![i] = t] = DOMAIN sinks
           /\ \A k \in DOMAIN sinks : [sinks EXCEPT ![i] = t][k] = IF k = i THEN t ELSE sinks[k]
  <1>1. \A k \in DOMAIN sinks : sinks[k] \in Sinks
    BY ElementOfSeq, LenProperties
  <1> DEFINE q == [sinks EXCEPT ![i] = t]
  <1>2. Len(sinks) \in Nat /\ DOMAIN sinks = 1 .. Len(sinks)
    BY LenProperties
  <1>3. q \in [DOMAIN sinks -> Sinks] /\ \A k \in DOMAIN sinks : q[k] = IF k = i THEN t ELSE sinks[k]
    BY <1>1, <1>2
  <1> HIDE DEF q
  <1>4. q \in Seq(Sinks) /\ DOMAIN q = DOMAIN sinks
    BY <1>3, SamePlaces
  <1> QED BY <1>3, <1>4 DEF q

LEMMA DeferSinks ==
    ASSUME sinks \in Seq(Sinks), NEW n, NEW i \in DOMAIN sinks, Defer(n, i)
    PROVE  /\ sinks' \in Seq(Sinks) /\ DOMAIN sinks' = DOMAIN sinks
           /\ \A k \in DOMAIN sinks :
                  /\ Follows(sinks'[k], sinks[k])
                  /\ k # i => sinks'[k].waits = sinks[k].waits
                  /\ sinks[k].name = n => sinks'[k].stray \/ sinks'[k].waits
  <1> DEFINE t == [sinks[i] EXCEPT !.waits = TRUE]
             d == [sinks EXCEPT ![i] = t]
  <1>1. sinks[i] \in Sinks
    BY ElementOfSeq, LenProperties
  <1>2. t \in Sinks /\ Follows(t, sinks[i])
    BY <1>1 DEF Sinks, Follows
  <1>3. \A k \in DOMAIN sinks : Follows(sinks[k], sinks[k])
    BY DEF Follows
  <1>4. /\ d \in Seq(Sinks) /\ DOMAIN d = DOMAIN sinks
        /\ \A k \in DOMAIN sinks : d[k] = IF k = i THEN t ELSE sinks[k]
    BY <1>2, OneChanges
  <1>5. sinks' = Missed(n, d)
    BY DEF Defer
  <1> HIDE DEF d, t
  <1>6. /\ sinks' \in Seq(Sinks) /\ DOMAIN sinks' = DOMAIN sinks
        /\ \A k \in DOMAIN sinks :
               /\ Follows(sinks'[k], d[k]) /\ Follows(d[k], sinks[k])
               /\ sinks'[k].waits = d[k].waits
               /\ d[k].name = n => sinks'[k].stray \/ d[k].waits
    BY <1>2, <1>3, <1>4, <1>5, MissedSinks
  <1> QED BY <1>4, <1>6 DEF Follows

\* The removal of a service, handled: every sink of its name that is left is on its way
\* out or has missed the removal, and the sinks of other names stay.
LEMMA RemovedSinks ==
    ASSUME TypeOK, Deferred, NEW n, CcRemoved(n) \/ MiceRemoved(n) \/ AvahiRemoved(n)
    PROVE  /\ sinks' \in Seq(Sinks)
           /\ \A j \in DOMAIN sinks' : \E k \in DOMAIN sinks :
                  /\ Follows(sinks'[j], sinks[k])
                  /\ sinks[k].name = n => sinks'[j].stray \/ sinks'[j].waits
                  /\ sinks'[j].waits => kind # "avahi" /\ Doomed(sinks'[j])
           /\ \A k \in DOMAIN sinks :
                  \/ \E j \in DOMAIN sinks' : Follows(sinks'[j], sinks[k])
                  \/ sinks[k].name = n /\ (kind = "avahi" \/ sinks[k].state # "streaming")
  <1>1. sinks \in Seq(Sinks) /\ \A k \in DOMAIN sinks : sinks[k] \in Sinks
    BY ElementOfSeq, LenProperties DEF TypeOK
  <1>2. CASE First(n) = {} /\ UNCHANGED sinks
    <2>1. \A k \in DOMAIN sinks : sinks[k].name # n
      BY <1>1, <1>2, SomeFirst DEF Listed
    <2> QED BY <1>1, <1>2, <2>1 DEF Follows, Deferred
  <1>3. ASSUME NEW i \in First(n), TakeOff(n, i), kind = "avahi" \/ sinks[i].state # "streaming"
        PROVE  /\ sinks' \in Seq(Sinks)
               /\ \A j \in DOMAIN sinks' : \E k \in DOMAIN sinks :
                      /\ Follows(sinks'[j], sinks[k])
                      /\ sinks[k].name = n => sinks'[j].stray \/ sinks'[j].waits
                      /\ sinks'[j].waits => kind # "avahi" /\ Doomed(sinks'[j])
               /\ \A k \in DOMAIN sinks :
                      \/ \E j \in DOMAIN sinks' : Follows(sinks'[j], sinks[k])
                      \/ sinks[k].name = n /\ (kind = "avahi" \/ sinks[k].state # "streaming")
    <2>1. i \in DOMAIN sinks /\ sinks[i].name = n
      BY <1>3 DEF First
    <2>2. /\ sinks' \in Seq(Sinks)
          /\ \A j \in DOMAIN sinks' : \E k \in DOMAIN sinks :
                 /\ Follows(sinks'[j], sinks[k]) /\ sinks'[j].waits = sinks[k].waits
                 /\ sinks[k].name = n => sinks'[j].stray \/ sinks'[j].waits
          /\ \A k \in DOMAIN sinks : k # i => \E j \in DOMAIN sinks' : Follows(sinks'[j], sinks[k])
      BY <1>1, <1>3, <2>1, TakeOffSinks
    <2>3. ASSUME NEW j \in DOMAIN sinks', NEW k \in DOMAIN sinks,
                 Follows(sinks'[j], sinks[k]), sinks'[j].waits = sinks[k].waits
          PROVE  sinks'[j].waits => kind # "avahi" /\ Doomed(sinks'[j])
      BY <2>3 DEF Deferred, Doomed, Follows
    <2> QED BY <1>3, <2>1, <2>2, <2>3
  <1>4. ASSUME NEW i \in First(n), Defer(n, i), kind # "avahi", sinks[i].state # "disconnected"
        PROVE  /\ sinks' \in Seq(Sinks) /\ DOMAIN sinks' = DOMAIN sinks
               /\ \A k \in DOMAIN sinks :
                      /\ Follows(sinks'[k], sinks[k])
                      /\ sinks[k].name = n => sinks'[k].stray \/ sinks'[k].waits
                      /\ sinks'[k].waits => kind # "avahi" /\ Doomed(sinks'[k])
    <2>1. i \in DOMAIN sinks
      BY <1>4 DEF First
    <2>2. /\ sinks' \in Seq(Sinks) /\ DOMAIN sinks' = DOMAIN sinks
          /\ \A k \in DOMAIN sinks :
                 /\ Follows(sinks'[k], sinks[k])
                 /\ k # i => sinks'[k].waits = sinks[k].waits
                 /\ sinks[k].name = n => sinks'[k].stray \/ sinks'[k].waits
      BY <1>1, <1>4, <2>1, DeferSinks
    <2>3. ASSUME NEW k \in DOMAIN sinks, sinks'[k].waits
          PROVE  kind # "avahi" /\ Doomed(sinks'[k])
      BY <1>4, <2>2, <2>3 DEF Deferred, Doomed, Follows
    <2> QED BY <2>2, <2>3
  <1>5. CASE CcRemoved(n)
    BY <1>2, <1>3, <1>4, <1>5 DEF CcRemoved
  <1>6. CASE MiceRemoved(n)
    BY <1>2, <1>3, <1>4, <1>6 DEF MiceRemoved
  <1>7. CASE AvahiRemoved(n)
    BY <1>2, <1>3, <1>7 DEF AvahiRemoved
  <1> QED BY <1>5, <1>6, <1>7
-----------------------------------------------------------------------------
(* What an operation does to the notifications. *)

LEMMA NoteKeeps ==
    ASSUME IInv, NEW flag \in {"added", "removed", "fewer"}, NEW n \in Names, Note(flag, n)
    PROVE  /\ notes' \in Seq(Notes)
           /\ link # "live" => notes' = <<>>
           /\ \A f : Noted(f) \subseteq Noted(f)'
           /\ link = "live" => n \in Noted(flag)'
           /\ link = "live" =>
                  /\ DOMAIN notes' = 1 .. Len(notes) + 1
                  /\ \A i \in DOMAIN notes : notes'[i] = notes[i]
                  /\ notes'[Len(notes) + 1] = [flag |-> flag, name |-> n]
  <1> DEFINE note == [flag |-> flag, name |-> n]
  <1>1. notes \in Seq(Notes) /\ note \in Notes
    BY DEF IInv, TypeOK, Notes
  <1>2. Len(notes) \in Nat /\ DOMAIN notes = 1 .. Len(notes)
    BY <1>1, LenProperties
  <1>3. CASE link = "live"
    <2>1. notes' = Append(notes, note)
      BY <1>3 DEF Note
    <2>2. /\ notes' \in Seq(Notes) /\ Len(notes') = Len(notes) + 1
          /\ \A i \in 1 .. Len(notes) : notes'[i] = notes[i]
          /\ notes'[Len(notes) + 1] = note
      BY <1>1, <2>1, AppendProperties
    <2>3. DOMAIN notes' = 1 .. Len(notes) + 1
      BY <2>2, LenProperties
    <2> QED BY <1>2, <1>3, <2>2, <2>3 DEF Noted
  <1>4. CASE link # "live"
    BY <1>1, <1>4 DEF Note, Noted, IInv, Quiet
  <1> QED BY <1>3, <1>4

LEMMA HeardKeeps ==
    ASSUME IInv, NEW flag, NEW n, Heard(flag, n)
    PROVE  /\ notes' \in Seq(Notes) /\ Quiet' /\ Ordered' /\ n \in Names
           /\ \A f, x : x \in Noted(f) => x \in Noted(f)' \/ (x = n /\ f = flag)
           /\ flag = "removed" /\ n \in Announced => n \in Noted("added")'
  <1>1. notes \in Seq(Notes) /\ notes # <<>> /\ Head(notes) = [flag |-> flag, name |-> n]
    BY DEF IInv, TypeOK, Notes, Heard
  <1>2. Len(notes) \in Nat /\ DOMAIN notes = 1 .. Len(notes) /\ notes[1] = [flag |-> flag, name |-> n]
    BY <1>1, LenProperties
  <1>3. /\ notes' \in Seq(Notes) /\ Len(notes') = Len(notes) - 1
        /\ \A i \in 1 .. Len(notes) - 1 : notes'[i] = notes[i + 1]
    BY <1>1, HeadTailProperties DEF Heard
  <1>4. DOMAIN notes' = 1 .. Len(notes) - 1
    BY <1>3, LenProperties
  <1>5. n \in Names
    BY <1>1 DEF Notes
  <1>6. \A i \in DOMAIN notes : i > 1 => i - 1 \in DOMAIN notes' /\ notes'[i - 1] = notes[i]
    BY <1>2, <1>3, <1>4
  <1>7. Quiet' /\ Announced' = Announced
    BY DEF Heard, Quiet, subscription, Announced
  <1>8. ASSUME NEW i \in DOMAIN notes', notes'[i].flag = "removed", notes'[i].name \in Announced
        PROVE  \E j \in DOMAIN notes' : j > i /\ notes'[j] = [flag |-> "added", name |-> notes'[i].name]
    <2>1. i + 1 \in DOMAIN notes /\ notes'[i] = notes[i + 1]
      BY <1>2, <1>3, <1>4
    <2>2. PICK j \in DOMAIN notes : j > i + 1 /\ notes[j] = [flag |-> "added", name |-> notes[i + 1].name]
      BY <1>8, <2>1 DEF IInv, Ordered
    <2>3. j - 1 \in DOMAIN notes' /\ notes'[j - 1] = notes[j] /\ j - 1 > i
      BY <1>2, <1>4, <1>6, <2>2
    <2> QED BY <2>1, <2>2, <2>3
  <1>9. ASSUME NEW f, NEW x \in Noted(f) PROVE x \in Noted(f)' \/ (x = n /\ f = flag)
    <2>1. PICK i \in DOMAIN notes : notes[i].flag = f /\ notes[i].name = x
      BY DEF Noted
    <2>2. CASE i = 1
      BY <1>2, <2>1, <2>2
    <2>3. CASE i > 1
      BY <1>6, <2>1, <2>3 DEF Noted
    <2> QED BY <1>2, <2>2, <2>3
  <1>10. ASSUME flag = "removed", n \in Announced PROVE n \in Noted("added")'
    <2>1. 1 \in DOMAIN notes
      BY <1>1, <1>2, EmptySeq
    <2>2. PICK j \in DOMAIN notes : j > 1 /\ notes[j] = [flag |-> "added", name |-> n]
      BY <1>2, <1>10, <2>1 DEF IInv, Ordered
    <2> QED BY <1>6, <2>2 DEF Noted
  <1> QED BY <1>3, <1>5, <1>7, <1>8, <1>9, <1>10 DEF Ordered

\* A new subscription is told of all that is there.
LEMMA BrowseKeeps ==
    ASSUME CcBrowse \/ MiceBrowse, address' = address
    PROVE  /\ link' \in {"live", "none", "deaf"} /\ notes' \in Seq(Notes)
           /\ both' = {} /\ Quiet' /\ Ordered' /\ kind # "avahi"
           /\ link' = "live" => Announced' \subseteq Noted("added")'
  <1>1. Announced' = Announced /\ kind # "avahi"
    BY DEF Announced, CcBrowse, MiceBrowse
  <1>2. CASE \E n \in Snapshot : Subscribed(n)
    <2>1. PICK n \in Snapshot : Subscribed(n)
      BY <1>2
    <2>2. /\ notes' \in Seq(Notes) /\ link' = "live" /\ both' = {}
          /\ \A i \in DOMAIN notes' : notes'[i].flag = "added"
          /\ \A x \in Announced : \E i \in DOMAIN notes' : notes'[i] = [flag |-> "added", name |-> x]
      BY <2>1, SnapshotCovers DEF Subscribed, Notes
    <2> QED BY <1>1, <2>2 DEF Quiet, Ordered, Noted
  <1>3. CASE NotSubscribed("none") \/ NotSubscribed("deaf")
    <2>1. notes' = <<>> /\ link' \in {"none", "deaf"} /\ both' = {}
      BY <1>3 DEF NotSubscribed
    <2>2. notes' \in Seq(Notes) /\ DOMAIN notes' = {}
      BY <2>1, EmptySeq
    <2> QED BY <1>1, <2>1, <2>2 DEF Quiet, Ordered
  <1> QED BY <1>2, <1>3 DEF CcBrowse, MiceBrowse
-----------------------------------------------------------------------------
(* One lemma for each group of operations. *)

\* The sinks stay, and what shelters them.
LEMMA GhostsStay ==
    ASSUME NoGhosts, UNCHANGED sinks, link' = "live" => link = "live",
           Announced \cup Noted("removed") \subseteq Announced' \cup Noted("removed")'
    PROVE  NoGhosts'
  BY DEF NoGhosts

LEMMA AnnounceKeeps ==
    ASSUME IInv, NEW n \in Names, NEW a \in Hosts, Announce(n, a)
    PROVE  IInv'
  <1>1. /\ notes' \in Seq(Notes)
        /\ link # "live" => notes' = <<>>
        /\ \A f : Noted(f) \subseteq Noted(f)'
        /\ link = "live" => n \in Noted("added")'
        /\ link = "live" =>
               /\ DOMAIN notes' = 1 .. Len(notes) + 1
               /\ \A i \in DOMAIN notes : notes'[i] = notes[i]
               /\ notes'[Len(notes) + 1] = [flag |-> "added", name |-> n]
    BY NoteKeeps DEF Announce
  <1>2. address' \in [Names -> Hosts \cup {None}] /\ Announced' = Announced \cup {n}
    BY AddressAssumption DEF Announce, Announced, IInv, TypeOK
  <1>3. TypeOK'
    BY <1>1, <1>2 DEF Announce, subscription, IInv, TypeOK, Notes
  <1>4. Dropped' /\ Quiet' /\ Deferred'
    BY <1>1 DEF Announce, subscription, IInv, Dropped, Quiet, Deferred, Doomed
  <1>5. Ordered'
    <2>1. CASE link = "live"
      <3>1. Len(notes) \in Nat /\ DOMAIN notes = 1 .. Len(notes)
        BY LenProperties DEF IInv, TypeOK
      <3>2. ASSUME NEW i \in DOMAIN notes', notes'[i].flag = "removed", notes'[i].name \in Announced'
            PROVE  \E j \in DOMAIN notes' : j > i /\ notes'[j] = [flag |-> "added", name |-> notes'[i].name]
        <4>1. i \in DOMAIN notes /\ notes'[i] = notes[i]
          BY <1>1, <2>1, <3>1, <3>2
        <4>2. CASE notes[i].name = n
          <5>1. Len(notes) + 1 \in DOMAIN notes' /\ Len(notes) + 1 > i
            BY <1>1, <2>1, <3>1, <4>1
          <5> QED BY <1>1, <2>1, <4>1, <4>2, <5>1
        <4>3. CASE notes[i].name # n
          <5>1. PICK j \in DOMAIN notes : j > i /\ notes[j] = [flag |-> "added", name |-> notes[i].name]
            BY <1>2, <3>2, <4>1, <4>3 DEF IInv, Ordered
          <5>2. j \in DOMAIN notes' /\ notes'[j] = notes[j]
            BY <1>1, <2>1, <3>1, <5>1
          <5> QED BY <4>1, <5>1, <5>2
        <4> QED BY <4>2, <4>3
      <3> QED BY <3>2 DEF Ordered
    <2>2. CASE link # "live"
      <3>1. DOMAIN notes' = {}
        BY <1>1, <2>2, EmptySeq
      <3> QED BY <3>1 DEF Ordered
    <2> QED BY <2>1, <2>2
  <1>6. NoGhosts'
    BY <1>1, <1>2, GhostsStay DEF Announce, subscription, IInv
  <1>7. Found'
    <2>1. ASSUME link = "live", NEW x \in Announced'
          PROVE  x \in (Listed \cup Noted("added") \cup Asked \cup lost)'
      <3>1. CASE x = n
        BY <1>1, <2>1, <3>1
      <3>2. CASE x # n
        <4>1. x \in Listed \cup Noted("added") \cup Asked \cup lost
          BY <1>2, <2>1, <3>2 DEF IInv, Found, Expected
        <4>2. Listed' = Listed /\ Asked' = Asked /\ lost' = lost \ {n}
          BY DEF Announce, Listed, Asked
        <4> QED BY <1>1, <3>2, <4>1, <4>2
      <3> QED BY <3>1, <3>2
    <2>2. link' = link
      BY DEF Announce, subscription
    <2> QED BY <2>1, <2>2 DEF Found, Expected
  <1> QED BY <1>3, <1>4, <1>5, <1>6, <1>7 DEF IInv

LEMMA WithdrawKeeps ==
    ASSUME IInv, NEW n \in Names, Withdraw(n)
    PROVE  IInv'
  <1>1. /\ notes' \in Seq(Notes)
        /\ link # "live" => notes' = <<>>
        /\ \A f : Noted(f) \subseteq Noted(f)'
        /\ link = "live" => n \in Noted("removed")'
        /\ link = "live" =>
               /\ DOMAIN notes' = 1 .. Len(notes) + 1
               /\ \A i \in DOMAIN notes : notes'[i] = notes[i]
               /\ notes'[Len(notes) + 1] = [flag |-> "removed", name |-> n]
    BY NoteKeeps DEF Withdraw
  <1>2. address' \in [Names -> Hosts \cup {None}] /\ Announced' = Announced \ {n}
    BY AddressAssumption DEF Withdraw, Announced, IInv, TypeOK
  <1>3. TypeOK'
    BY <1>1, <1>2 DEF Withdraw, subscription, IInv, TypeOK, Notes
  <1>4. Dropped' /\ Quiet' /\ Deferred'
    BY <1>1 DEF Withdraw, subscription, IInv, Dropped, Quiet, Deferred, Doomed
  <1>5. Ordered'
    <2>1. CASE link = "live"
      <3>1. Len(notes) \in Nat /\ DOMAIN notes = 1 .. Len(notes)
        BY LenProperties DEF IInv, TypeOK
      <3>2. ASSUME NEW i \in DOMAIN notes', notes'[i].flag = "removed", notes'[i].name \in Announced'
            PROVE  \E j \in DOMAIN notes' : j > i /\ notes'[j] = [flag |-> "added", name |-> notes'[i].name]
        <4>1. i \in DOMAIN notes /\ notes'[i] = notes[i]
          BY <1>1, <1>2, <2>1, <3>1, <3>2
        <4>2. PICK j \in DOMAIN notes : j > i /\ notes[j] = [flag |-> "added", name |-> notes[i].name]
          BY <1>2, <3>2, <4>1 DEF IInv, Ordered
        <4>3. j \in DOMAIN notes' /\ notes'[j] = notes[j]
          BY <1>1, <2>1, <3>1, <4>2
        <4> QED BY <4>1, <4>2, <4>3
      <3> QED BY <3>2 DEF Ordered
    <2>2. CASE link # "live"
      <3>1. DOMAIN notes' = {}
        BY <1>1, <2>2, EmptySeq
      <3> QED BY <3>1 DEF Ordered
    <2> QED BY <2>1, <2>2
  <1>6. NoGhosts'
    BY <1>1, <1>2 DEF Withdraw, subscription, IInv, NoGhosts
  <1>7. Found'
    <2>1. Listed' = Listed /\ resolving' = resolving /\ lost' = lost /\ link' = link
      BY DEF Withdraw, Listed, subscription
    <2>2. Asked' = Asked
      BY <2>1 DEF Asked
    <2> QED BY <1>1, <1>2, <2>1, <2>2 DEF IInv, Found, Expected
  <1> QED BY <1>3, <1>4, <1>5, <1>6, <1>7 DEF IInv

\* Another protocol more or less changes nothing but the notifications.
LEMMA ProtocolKeeps ==
    ASSUME IInv, NEW n \in Names, AnnounceAgain(n) \/ WithdrawOne(n)
    PROVE  IInv'
  <1> DEFINE Final(flag) == notes'[Len(notes) + 1] = [flag |-> flag, name |-> n]
  <1>1. /\ UNCHANGED <<address, subscription, resolving, sinks, lost>>
        /\ both' \subseteq Names
        /\ Note("added", n) \/ Note("fewer", n)
    BY DEF AnnounceAgain, WithdrawOne, IInv, TypeOK
  <1>2. /\ notes' \in Seq(Notes)
        /\ link # "live" => notes' = <<>>
        /\ \A f : Noted(f) \subseteq Noted(f)'
        /\ link = "live" =>
               /\ DOMAIN notes' = 1 .. Len(notes) + 1
               /\ \A i \in DOMAIN notes : notes'[i] = notes[i]
               /\ Final("added") \/ Final("fewer")
    BY <1>1, NoteKeeps
  <1>3. Announced' = Announced /\ Listed' = Listed /\ Asked' = Asked
    BY <1>1 DEF Announced, Listed, Asked
  <1>4. TypeOK'
    BY <1>1, <1>2 DEF subscription, IInv, TypeOK
  <1>5. Dropped' /\ Quiet' /\ Deferred'
    BY <1>1, <1>2 DEF subscription, IInv, Dropped, Quiet, Deferred, Doomed
  <1>6. Ordered'
    <2>1. CASE link = "live"
      <3>1. Len(notes) \in Nat /\ DOMAIN notes = 1 .. Len(notes)
        BY LenProperties DEF IInv, TypeOK
      <3>2. ASSUME NEW i \in DOMAIN notes', notes'[i].flag = "removed", notes'[i].name \in Announced
            PROVE  \E j \in DOMAIN notes' : j > i /\ notes'[j] = [flag |-> "added", name |-> notes'[i].name]
        <4>1. i \in DOMAIN notes /\ notes'[i] = notes[i]
          BY <1>2, <2>1, <3>1, <3>2
        <4>2. PICK j \in DOMAIN notes : j > i /\ notes[j] = [flag |-> "added", name |-> notes[i].name]
          BY <3>2, <4>1 DEF IInv, Ordered
        <4>3. j \in DOMAIN notes' /\ notes'[j] = notes[j]
          BY <1>2, <2>1, <3>1, <4>2
        <4> QED BY <4>1, <4>2, <4>3
      <3> QED BY <1>3, <3>2 DEF Ordered
    <2>2. CASE link # "live"
      <3>1. DOMAIN notes' = {}
        BY <1>2, <2>2, EmptySeq
      <3> QED BY <3>1 DEF Ordered
    <2> QED BY <2>1, <2>2
  <1>7. NoGhosts'
    BY <1>1, <1>2, <1>3, GhostsStay DEF subscription, IInv
  <1>8. Found'
    BY <1>1, <1>2, <1>3 DEF subscription, IInv, Found, Expected
  <1> QED BY <1>4, <1>5, <1>6, <1>7, <1>8 DEF IInv

\* An answer changes what is resolving, and nothing of what is asked for.
LEMMA AnswerKeeps ==
    ASSUME IInv, NEW r, NEW answers \in SUBSET (Addresses \cup {None}), Answer(r, answers)
    PROVE  IInv'
  <1>1. PICK a \in answers \cup {"failed"} : resolving' = (resolving \ {r}) \cup {[r EXCEPT !.answer = a]}
    BY DEF Answer
  <1> DEFINE got == [r EXCEPT !.answer = a]
  <1>2. r \in resolving /\ r \in Requests
    BY DEF Answer, IInv, TypeOK
  <1>3. got \in Requests /\ got.name = r.name /\ got.answer # "watching"
    BY <1>1, <1>2, AddressAssumption DEF Requests
  <1> HIDE DEF got
  <1>4. resolving' = (resolving \ {r}) \cup {got}
    BY <1>1 DEF got
  <1>5. Asked \subseteq Asked'
    BY <1>2, <1>3, <1>4 DEF Asked
  <1>6. TypeOK'
    BY <1>3, <1>4 DEF Answer, subscription, network, IInv, TypeOK
  <1>7. Dropped'
    BY <1>2 DEF Answer, subscription, IInv, Dropped
  <1>8. Quiet' /\ Ordered' /\ Deferred'
    BY DEF Answer, subscription, network, IInv, Quiet, Ordered, Announced, Deferred, Doomed
  <1>9. NoGhosts'
    BY DEF Answer, subscription, network, IInv, NoGhosts, Announced, Noted
  <1>10. Listed' = Listed /\ Announced' = Announced /\ Noted("added")' = Noted("added")
    BY DEF Answer, network, Listed, Announced, Noted
  <1>11. Found'
    BY <1>5, <1>10 DEF Answer, subscription, IInv, Found, Expected
  <1> QED BY <1>6, <1>7, <1>8, <1>9, <1>11 DEF IInv

\* A subscription that is taken up reports all that is there; the sinks that stay and
\* whose service does not have missed its removal.
LEMMA DeviceKeeps ==
    ASSUME IInv, DeviceConnected \/ DeviceDisconnected
    PROVE  IInv'
  <1>1. CASE DeviceConnected
    <2>1. /\ link' \in {"live", "none", "deaf"} /\ notes' \in Seq(Notes)
          /\ both' = {} /\ Quiet' /\ Ordered' /\ kind # "avahi"
          /\ link' = "live" => Announced' \subseteq Noted("added")'
      BY <1>1, BrowseKeeps DEF DeviceConnected
    <2>2. sinks' = <<>> /\ kind' = kind /\ provider' = TRUE
      BY <1>1 DEF DeviceConnected, IInv, Dropped
    <2>3. TypeOK'
      BY <1>1, <2>1 DEF DeviceConnected, IInv, TypeOK, Links
    <2>4. Dropped' /\ Deferred' /\ NoGhosts' /\ Found'
      BY <2>1, <2>2, EmptySeq DEF Dropped, Deferred, NoGhosts, Found, Expected
    <2> QED BY <2>1, <2>3, <2>4 DEF IInv
  <1>2. CASE DeviceDisconnected
    <2>1. /\ kind # "avahi" /\ kind' = kind /\ provider' = FALSE /\ address' = address
          /\ link' = "none" /\ notes' = <<>> /\ both' = {} /\ retries' = 0
          /\ stale' \in BOOLEAN /\ crashed' = crashed
          /\ resolving' = {} /\ sinks' = <<>> /\ lost' = {}
      BY <1>2 DEF DeviceDisconnected, NotSubscribed, IInv, TypeOK
    <2>2. notes' \in Seq(Notes) /\ sinks' \in Seq(Sinks)
      BY <2>1, EmptySeq
    <2>3. TypeOK'
      BY <2>1, <2>2 DEF IInv, TypeOK, Links, Notes
    <2>4. Dropped' /\ Quiet' /\ Ordered' /\ Deferred' /\ NoGhosts' /\ Found'
      BY <2>1, EmptySeq DEF Dropped, Quiet, Ordered, Deferred, NoGhosts, Found
    <2> QED BY <2>3, <2>4 DEF IInv
  <1> QED BY <1>1, <1>2

LEMMA EndKeeps ==
    ASSUME IInv, SubscriptionEnds \/ HangUp
    PROVE  IInv'
  <1>1. /\ link' \in {"over", "deaf"} /\ notes' = <<>> /\ both' = {} /\ link \in {"live", "over"}
        /\ UNCHANGED <<kind, provider, address, stale, crashed, resolving, sinks, lost>>
        /\ retries' \in Nat
    BY DEF SubscriptionEnds, HangUp, NotSubscribed, IInv, TypeOK
  <1>2. notes' \in Seq(Notes)
    BY <1>1, EmptySeq
  <1>3. TypeOK'
    BY <1>1, <1>2 DEF IInv, TypeOK, Links, Notes
  <1>4. Dropped' /\ Quiet' /\ Ordered' /\ Deferred' /\ NoGhosts' /\ Found'
    BY <1>1, EmptySeq DEF IInv, Dropped, Quiet, Ordered, Deferred, Doomed, NoGhosts, Found
  <1> QED BY <1>3, <1>4 DEF IInv

LEMMA ReconnectKeeps ==
    ASSUME IInv, CcReconnect \/ MiceReconnect
    PROVE  IInv'
  <1>1. /\ retries > 0 /\ retries' = retries - 1
        /\ UNCHANGED <<kind, provider, address, stale, crashed, resolving, lost>>
        /\ sinks' = [i \in DOMAIN sinks |->
                        [sinks[i] EXCEPT !.stray = @ \/ sinks[i].name \notin Announced]]
    BY DEF CcReconnect, MiceReconnect, Reconnect
  <1>2. /\ link' \in {"live", "none", "deaf"} /\ notes' \in Seq(Notes)
        /\ both' = {} /\ Quiet' /\ Ordered' /\ kind # "avahi"
        /\ link' = "live" => Announced' \subseteq Noted("added")'
    BY <1>1, BrowseKeeps DEF CcReconnect, MiceReconnect
  <1>3. \A i \in DOMAIN sinks : sinks[i] \in Sinks
    BY ElementOfSeq, LenProperties DEF IInv, TypeOK
  <1>4. ASSUME NEW i \in DOMAIN sinks
        PROVE  /\ sinks'[i] \in Sinks /\ Follows(sinks'[i], sinks[i]) /\ sinks'[i].waits = sinks[i].waits
               /\ sinks'[i].name \in Announced \/ sinks'[i].stray
    <2>1. sinks[i] \in Sinks /\ sinks'[i] = [sinks[i] EXCEPT !.stray = @ \/ sinks[i].name \notin Announced]
      BY <1>1, <1>3
    <2> QED BY <2>1 DEF Sinks, Follows
  <1>5. sinks' \in Seq(Sinks) /\ DOMAIN sinks' = DOMAIN sinks
    <2>1. sinks' \in [DOMAIN sinks -> Sinks]
      BY <1>1, <1>4
    <2> QED BY <2>1, SamePlaces DEF IInv, TypeOK
  <1>6. TypeOK'
    BY <1>1, <1>2, <1>5 DEF IInv, TypeOK, Links, Notes
  <1>7. Dropped'
    BY <1>1 DEF IInv, TypeOK, Dropped
  <1>8. Deferred'
    <2>1. ASSUME NEW i \in DOMAIN sinks', sinks'[i].waits
          PROVE  kind' # "avahi" /\ Doomed(sinks'[i])
      <3>1. Follows(sinks'[i], sinks[i]) /\ sinks[i].waits /\ Doomed(sinks[i])
        BY <1>4, <1>5, <2>1 DEF IInv, Deferred
      <3> QED BY <1>1, <1>2, <3>1 DEF Doomed, Follows
    <2> QED BY <2>1 DEF Deferred, Doomed
  <1>9. NoGhosts'
    BY <1>1, <1>4, <1>5 DEF NoGhosts, Announced
  <1>10. Found'
    BY <1>2 DEF Found, Expected
  <1> QED BY <1>2, <1>6, <1>7, <1>8, <1>9, <1>10 DEF IInv

\* A freed provider is nobody's.
LEMMA StaleKeeps ==
    ASSUME IInv, StaleCallback
    PROVE  IInv'
  <1>1. /\ UNCHANGED <<kind, provider, link, retries, address, notes, both, resolving, sinks, lost>>
        /\ stale' \in BOOLEAN /\ crashed' \in BOOLEAN
    BY DEF StaleCallback, network
  <1>2. TypeOK'
    BY <1>1 DEF IInv, TypeOK
  <1>3. Dropped' /\ Quiet' /\ Ordered' /\ Deferred'
    BY <1>1 DEF IInv, Dropped, Quiet, Ordered, Announced, Deferred, Doomed
  <1>4. NoGhosts' /\ Found'
    BY <1>1 DEF IInv, NoGhosts, Found, Expected, Announced, Noted, Listed, Asked
  <1> QED BY <1>2, <1>3, <1>4 DEF IInv

\* A service that is reported is asked for or, if that fails, forsaken.
LEMMA AddedKeeps ==
    ASSUME IInv, NEW n, Heard("added", n), Ask(n) \/ (UNCHANGED <<resolving, sinks>> /\ Forsaken(n))
    PROVE  IInv'
  <1>1. /\ notes' \in Seq(Notes) /\ Quiet' /\ Ordered' /\ n \in Names
        /\ \A f, x : x \in Noted(f) => x \in Noted(f)' \/ (x = n /\ f = "added")
    BY HeardKeeps
  <1>2. /\ UNCHANGED <<kind, provider, address, both, link, retries, stale, crashed, sinks>>
        /\ link = "live"
    BY DEF Heard, Ask, subscription
  <1>3. /\ resolving' \subseteq Requests /\ Asked \subseteq Asked'
        /\ lost \subseteq lost' /\ lost' \subseteq Names
        /\ n \in Expected' \cup lost'
    <2>1. CASE Ask(n)
      <3>1. PICK k \in Tasks \ {r.task : r \in resolving} :
                resolving' = resolving \cup {[task |-> k, name |-> n, answer |-> "asked"]}
        BY <2>1 DEF Ask
      <3> DEFINE asked == [task |-> k, name |-> n, answer |-> "asked"]
      <3>2. asked \in Requests /\ asked.name = n /\ asked.answer # "watching"
        BY <1>1 DEF Requests
      <3> HIDE DEF asked
      <3>3. resolving' = resolving \cup {asked} /\ lost' = lost
        BY <2>1, <3>1 DEF Ask, asked
      <3>4. Asked \subseteq Asked' /\ n \in Asked'
        BY <3>2, <3>3 DEF Asked
      <3> QED BY <3>2, <3>3, <3>4 DEF IInv, TypeOK, Expected
    <2>2. CASE UNCHANGED <<resolving, sinks>> /\ Forsaken(n)
      BY <1>1, <2>2 DEF Forsaken, Asked, IInv, TypeOK
    <2> QED BY <2>1, <2>2
  <1>4. TypeOK'
    BY <1>1, <1>2, <1>3 DEF IInv, TypeOK
  <1>5. Dropped' /\ Deferred'
    BY <1>2 DEF IInv, Dropped, Deferred, Doomed
  <1>6. NoGhosts'
    BY <1>1, <1>2 DEF IInv, NoGhosts, Announced
  <1>7. Found'
    <2>1. Listed' = Listed /\ Announced' = Announced
      BY <1>2 DEF Listed, Announced
    <2>2. Announced \subseteq Listed \cup Noted("added") \cup Asked \cup lost
      BY <1>2 DEF IInv, Found, Expected
    <2> QED BY <1>1, <1>2, <1>3, <2>1, <2>2 DEF Found, Expected
  <1> QED BY <1>1, <1>4, <1>5, <1>6, <1>7 DEF IInv

LEMMA RemovedKeeps ==
    ASSUME IInv, NEW n, Removed(n), CcRemoved(n) \/ MiceRemoved(n) \/ AvahiRemoved(n)
    PROVE  IInv'
  <1>1. /\ notes' \in Seq(Notes) /\ Quiet' /\ Ordered' /\ n \in Names
        /\ \A f, x : x \in Noted(f) => x \in Noted(f)' \/ (x = n /\ f # "added")
    BY HeardKeeps DEF Removed, Fewer
  <1>2. /\ UNCHANGED <<kind, provider, address, both, link, retries, stale, crashed, resolving>>
        /\ link = "live"
    BY DEF Removed, Fewer, Heard, subscription, CcRemoved, MiceRemoved, AvahiRemoved
  <1>a. /\ lost \subseteq lost' /\ lost' \subseteq Names
        /\ n \in Announced => n \in Expected' \cup lost'
    <2>1. CASE Heard("removed", n) /\ UNCHANGED lost
      BY <2>1, HeardKeeps DEF Expected, IInv, TypeOK
    <2>2. CASE Fewer(n)
      BY <1>1, <2>2 DEF Fewer, Forsaken, IInv, TypeOK
    <2> QED BY <2>1, <2>2 DEF Removed
  <1>3. /\ sinks' \in Seq(Sinks)
        /\ \A j \in DOMAIN sinks' : \E k \in DOMAIN sinks :
               /\ Follows(sinks'[j], sinks[k])
               /\ sinks[k].name = n => sinks'[j].stray \/ sinks'[j].waits
               /\ sinks'[j].waits => kind # "avahi" /\ Doomed(sinks'[j])
        /\ \A k \in DOMAIN sinks :
               \/ \E j \in DOMAIN sinks' : Follows(sinks'[j], sinks[k])
               \/ sinks[k].name = n /\ (kind = "avahi" \/ sinks[k].state # "streaming")
    BY RemovedSinks DEF IInv
  <1>4. TypeOK'
    BY <1>1, <1>2, <1>3, <1>a DEF IInv, TypeOK
  <1>5. Dropped'
    BY <1>2 DEF IInv, Dropped
  <1>6. Deferred'
    BY <1>2, <1>3 DEF Deferred, Doomed
  <1>7. NoGhosts'
    <2>1. ASSUME NEW j \in DOMAIN sinks'
          PROVE  \/ sinks'[j].name \in (Announced \cup Noted("removed"))'
                 \/ sinks'[j].stray \/ sinks'[j].idle
                 \/ sinks'[j].waits /\ sinks'[j].state # "disconnected"
      <3>1. PICK k \in DOMAIN sinks :
               /\ Follows(sinks'[j], sinks[k])
               /\ sinks[k].name = n => sinks'[j].stray \/ sinks'[j].waits
               /\ sinks'[j].waits => kind # "avahi" /\ Doomed(sinks'[j])
        BY <1>3
      <3>2. CASE sinks[k].name = n
        BY <3>1, <3>2 DEF Doomed
      <3>3. CASE sinks[k].name # n
        <4>1. \/ sinks[k].name \in Announced \cup Noted("removed")
              \/ sinks[k].stray \/ sinks[k].idle
              \/ sinks[k].waits /\ sinks[k].state # "disconnected"
          BY <1>2 DEF IInv, NoGhosts
        <4>2. Announced' = Announced
          BY <1>2 DEF Announced
        <4> QED BY <1>1, <3>1, <3>3, <4>1, <4>2 DEF Follows
      <3> QED BY <3>2, <3>3
    <2> QED BY <2>1 DEF NoGhosts
  <1>8. Found'
    <2>1. Asked' = Asked /\ Announced' = Announced
      BY <1>2 DEF Asked, Announced
    <2>2. Listed \ {n} \subseteq Listed'
      BY <1>3 DEF Listed, Follows
    <2>3. Announced \subseteq Listed \cup Noted("added") \cup Asked \cup lost
      BY <1>2 DEF IInv, Found, Expected
    <2>4. Noted("added") \subseteq Noted("added")'
      BY <1>1
    <2> QED BY <1>a, <2>1, <2>2, <2>3, <2>4 DEF Found, Expected
  <1> QED BY <1>1, <1>4, <1>5, <1>6, <1>7, <1>8 DEF IInv

LEMMA WithoutKeeps ==
    ASSUME sinks \in Seq(Sinks), NEW n
    PROVE  /\ Without(n) \in Seq(Sinks)
           /\ \A j \in DOMAIN Without(n) : \E k \in DOMAIN sinks : Without(n)[j] = sinks[k]
           /\ \A k \in DOMAIN sinks :
                  sinks[k].name # n => \E j \in DOMAIN Without(n) : Without(n)[j] = sinks[k]
  <1>1. CASE First(n) = {}
    BY <1>1 DEF Without
  <1>2. CASE First(n) # {}
    <2>1. PICK i \in First(n) : Without(n) = RemoveAt(sinks, i)
      BY <1>2 DEF Without
    <2>2. i \in DOMAIN sinks /\ sinks[i].name = n
      BY DEF First
    <2> DEFINE rest == RemoveAt(sinks, i)
    <2>3. /\ rest \in Seq(Sinks)
          /\ \A j \in DOMAIN rest : \E k \in DOMAIN sinks : k # i /\ rest[j] = sinks[k]
          /\ \A k \in DOMAIN sinks : k # i => \E j \in DOMAIN rest : rest[j] = sinks[k]
      BY <2>2, RemoveAtKeeps
    <2>4. Without(n) = rest
      BY <2>1
    <2> HIDE DEF rest
    <2> QED BY <2>2, <2>3, <2>4
  <1> QED BY <1>1, <1>2

\* An answer that was dealt with is no longer waited for; others of its name may be.
LEMMA AnsweredKeeps ==
    ASSUME IInv, NEW r, Answered(r)
    PROVE  /\ r \in Requests
           /\ provider
           /\ resolving' \subseteq Requests
           /\ Asked \subseteq Asked' \cup {r.name}
           /\ UNCHANGED <<kind, provider, address, notes, both, link, retries, stale, crashed>>
           /\ Announced' = Announced /\ \A f : Noted(f)' = Noted(f)
  BY DEF Answered, IInv, TypeOK, Dropped, Asked, subscription, network, Announced, Noted

LEMMA SettledKeeps ==
    ASSUME IInv, NEW r, Answered(r), Failed(r) \/ Repeated(r)
    PROVE  IInv'
  <1>1. /\ r.name \in Names
        /\ resolving' \subseteq Requests
        /\ Asked \subseteq Asked' \cup {r.name}
        /\ provider
        /\ UNCHANGED <<kind, provider, address, notes, both, link, retries, stale, crashed, sinks>>
        /\ Announced' = Announced /\ \A f : Noted(f)' = Noted(f)
    BY AnsweredKeeps DEF Failed, Repeated, Requests
  <1>2. lost \subseteq lost' /\ lost' \subseteq Names /\ r.name \in Expected' \cup lost'
    <2>1. CASE Failed(r)
      BY <1>1, <2>1 DEF Failed, Forsaken, IInv, TypeOK
    <2>2. CASE Repeated(r)
      BY <1>1, <2>2 DEF Repeated, Known, Expected, Listed, IInv, TypeOK
    <2> QED BY <2>1, <2>2
  <1>3. TypeOK'
    BY <1>1, <1>2 DEF IInv, TypeOK
  <1>4. Dropped' /\ Quiet' /\ Deferred' /\ Ordered'
    BY <1>1 DEF IInv, Dropped, Quiet, Deferred, Doomed, Ordered
  <1>5. NoGhosts'
    BY <1>1, GhostsStay DEF IInv
  <1>6. Found'
    <2>1. link = "live" => Announced \subseteq Listed \cup Noted("added") \cup Asked \cup lost
      BY DEF IInv, Found, Expected
    <2>2. Listed' = Listed
      BY <1>1 DEF Listed
    <2> QED BY <1>1, <1>2, <2>1, <2>2 DEF Found, Expected
  <1> QED BY <1>3, <1>4, <1>5, <1>6 DEF IInv

LEMMA AddsKeeps ==
    ASSUME IInv, NEW r, Answered(r), r.answer \in Addresses \cup {None},
           NEW others \in Seq(Sinks),
           \A j \in DOMAIN others : \E k \in DOMAIN sinks : others[j] = sinks[k],
           \A k \in DOMAIN sinks :
               sinks[k].name # r.name => \E j \in DOMAIN others : others[j] = sinks[k],
           Adds(r, others)
    PROVE  IInv'
  <1> DEFINE new == New(r.name, r.answer)
  <1>1. /\ r.name \in Names
        /\ resolving' \subseteq Requests
        /\ Asked \subseteq Asked' \cup {r.name}
        /\ provider
        /\ UNCHANGED <<kind, provider, address, notes, both, link, retries, stale, crashed>>
        /\ Announced' = Announced /\ \A f : Noted(f)' = Noted(f)
    BY AnsweredKeeps DEF Requests
  <1>2. /\ new \in Sinks /\ new.name = r.name /\ ~ new.waits
        /\ new.name \in Announced \cup Noted("removed") \/ new.stray
    BY <1>1 DEF New, Sinks, SinkStates
  <1> HIDE DEF new
  <1>3. sinks' = Append(others, new) /\ lost' = lost \ {r.name}
    BY DEF Adds, new
  <1>4. /\ sinks' \in Seq(Sinks) /\ Len(sinks') = Len(others) + 1
        /\ \A j \in 1 .. Len(others) : sinks'[j] = others[j]
        /\ sinks'[Len(others) + 1] = new
    BY <1>2, <1>3, AppendProperties
  <1>5. /\ Len(others) \in Nat /\ DOMAIN others = 1 .. Len(others)
        /\ DOMAIN sinks' = 1 .. Len(others) + 1
    BY <1>4, LenProperties
  <1>6. ASSUME NEW j \in DOMAIN sinks'
        PROVE  sinks'[j] = new \/ \E k \in DOMAIN sinks : sinks'[j] = sinks[k]
    BY <1>4, <1>5
  <1>7. (Listed \ {r.name}) \cup {r.name} \subseteq Listed'
    <2>1. Len(others) + 1 \in DOMAIN sinks' /\ \A j \in DOMAIN others : j \in DOMAIN sinks' /\ sinks'[j] = others[j]
      BY <1>4, <1>5
    <2>2. r.name \in Listed'
      BY <1>2, <1>4, <2>1 DEF Listed
    <2>3. ASSUME NEW k \in DOMAIN sinks, sinks[k].name # r.name PROVE sinks[k].name \in Listed'
      BY <2>1, <2>3 DEF Listed
    <2> QED BY <2>2, <2>3 DEF Listed
  <1>8. TypeOK'
    BY <1>1, <1>3, <1>4 DEF IInv, TypeOK
  <1>9. Dropped' /\ Quiet' /\ Ordered'
    BY <1>1 DEF IInv, Dropped, Quiet, Ordered
  <1>10. Deferred'
    BY <1>1, <1>2, <1>6 DEF IInv, Deferred, Doomed
  <1>11. NoGhosts'
    BY <1>1, <1>2, <1>6 DEF IInv, NoGhosts
  <1>12. Found'
    <2>1. link = "live" => Announced \subseteq Listed \cup Noted("added") \cup Asked \cup lost
      BY DEF IInv, Found, Expected
    <2> QED BY <1>1, <1>3, <1>7, <2>1 DEF Found, Expected
  <1> QED BY <1>8, <1>9, <1>10, <1>11, <1>12 DEF IInv

LEMMA ResolvedKeeps ==
    ASSUME IInv, NEW r \in resolving,
           CcResolved(r) \/ MiceResolved(r) \/ AvahiResolved(r) \/ AvahiDuplicate(r)
    PROVE  IInv'
  <1>1. sinks \in Seq(Sinks) /\ r \in Requests
        /\ r.answer \in Addresses \cup {None, "asked", "watching", "failed"}
    BY DEF IInv, TypeOK, Requests
  <1>2. CASE Answered(r) /\ (Failed(r) \/ Repeated(r))
    BY <1>2, SettledKeeps
  <1>3. CASE Answered(r) /\ r.answer \in Addresses \cup {None} /\ Adds(r, Without(r.name))
    BY <1>1, <1>3, WithoutKeeps, AddsKeeps
  <1>4. CASE Answered(r) /\ r.answer \in Addresses \cup {None} /\ Adds(r, sinks)
    BY <1>1, <1>4, AddsKeeps
  <1>5. CASE AvahiDuplicate(r)
    <2> DEFINE left == [r EXCEPT !.answer = "watching"]
    <2>1. left.name = r.name /\ left \in Requests
      BY <1>1 DEF Requests
    <2> HIDE DEF left
    <2>2. /\ resolving' = (resolving \ {r}) \cup {left}
          /\ UNCHANGED <<subscription, network, sinks, lost>> /\ kind = "avahi"
      BY <1>5 DEF AvahiDuplicate, Repeated, left
    <2>3. Asked \subseteq Asked' \cup {r.name} /\ r.name \in Listed
      BY <1>5, <2>2 DEF Asked, AvahiDuplicate, Repeated, Known, Listed
    <2>4. TypeOK'
      BY <2>1, <2>2 DEF IInv, TypeOK, subscription, network
    <2>5. Dropped' /\ Quiet' /\ Ordered' /\ Deferred' /\ NoGhosts'
      BY <2>2 DEF IInv, Dropped, Quiet, Ordered, Deferred, Doomed, NoGhosts, Announced, Noted, subscription, network
    <2>6. Found'
      <3>1. Listed' = Listed /\ Announced' = Announced /\ Noted("added")' = Noted("added")
        BY <2>2 DEF Listed, Announced, Noted, network
      <3> QED BY <2>2, <2>3, <3>1 DEF IInv, Found, Expected, subscription
    <2> QED BY <2>4, <2>5, <2>6 DEF IInv
  <1>6. CASE CcResolved(r)
    BY <1>2, <1>3, <1>6 DEF CcResolved
  <1>7. CASE MiceResolved(r)
    BY <1>1, <1>2, <1>4, <1>7 DEF MiceResolved, Answered
  <1>8. CASE AvahiResolved(r)
    BY <1>1, <1>2, <1>4, <1>8 DEF AvahiResolved, Answered
  <1> QED BY <1>5, <1>6, <1>7, <1>8

\* One sink changes; what waited for it is over or goes on.
LEMMA SinkKeeps ==
    ASSUME IInv, NEW i \in DOMAIN sinks, NEW t \in Sinks,
           sinks' = [sinks EXCEPT ![i] = t],
           t.name = sinks[i].name, t.stray = sinks[i].stray,
           sinks[i].idle => t.idle,
           t.waits => sinks[i].waits /\ Doomed(t),
           sinks[i].waits => t.idle \/ (t.waits /\ t.state # "disconnected"),
           UNCHANGED <<subscription, network, resolving, lost>>
    PROVE  IInv'
  <1>1. sinks \in Seq(Sinks) /\ UNCHANGED <<kind, provider, address, notes, both, link, retries, stale, crashed>>
    BY DEF IInv, TypeOK, subscription, network
  <1>2. /\ sinks' \in Seq(Sinks) /\ DOMAIN sinks' = DOMAIN sinks
        /\ \A k \in DOMAIN sinks : sinks'[k] = IF k = i THEN t ELSE sinks[k]
    BY <1>1, OneChanges
  <1>3. TypeOK'
    BY <1>1, <1>2 DEF IInv, TypeOK
  <1>4. Dropped' /\ Quiet' /\ Ordered'
    <2>1. ~ provider => sinks = <<>> /\ DOMAIN sinks = {}
      BY EmptySeq DEF IInv, Dropped
    <2> QED BY <1>1, <2>1 DEF IInv, Dropped, Quiet, Ordered, Announced
  <1>5. Deferred'
    <2>1. ASSUME NEW k \in DOMAIN sinks, sinks'[k].waits PROVE kind # "avahi" /\ Doomed(sinks'[k])
      BY <1>2, <2>1 DEF IInv, Deferred
    <2> QED BY <1>1, <1>2, <2>1 DEF Deferred, Doomed
  <1>6. NoGhosts'
    <2>1. ASSUME link = "live", NEW k \in DOMAIN sinks
          PROVE  \/ sinks'[k].name \in Announced \cup Noted("removed")
                 \/ sinks'[k].stray \/ sinks'[k].idle
                 \/ sinks'[k].waits /\ sinks'[k].state # "disconnected"
      <3>1. \/ sinks[k].name \in Announced \cup Noted("removed")
            \/ sinks[k].stray \/ sinks[k].idle
            \/ sinks[k].waits /\ sinks[k].state # "disconnected"
        BY <2>1 DEF IInv, NoGhosts
      <3> QED BY <1>2, <3>1
    <2> QED BY <1>1, <1>2, <2>1 DEF NoGhosts, Announced, Noted
  <1>7. Found'
    <2>1. Listed' = Listed /\ Announced' = Announced /\ Noted("added")' = Noted("added")
      BY <1>1, <1>2 DEF Listed, Announced, Noted
    <2>2. Asked' = Asked
      BY DEF Asked
    <2> QED BY <1>1, <2>1, <2>2 DEF IInv, Found, Expected
  <1> QED BY <1>3, <1>4, <1>5, <1>6, <1>7 DEF IInv

LEMMA SinkChangesKeep ==
    ASSUME IInv, NEW i \in DOMAIN sinks, NEW state \in SinkStates,
           CcSinkChanges(i, state) \/ MiceSinkChanges(i, state) \/ AvahiSinkChanges(i, state)
    PROVE  IInv'
  <1>1. /\ sinks \in Seq(Sinks) /\ sinks[i] \in Sinks
        /\ sinks[i].waits => kind # "avahi" /\ Doomed(sinks[i])
        /\ UNCHANGED <<subscription, network, resolving, lost>>
    BY ElementOfSeq, LenProperties
       DEF IInv, TypeOK, Deferred, CcSinkChanges, MiceSinkChanges, AvahiSinkChanges, SinkMoves
  <1>2. CASE CcSinkChanges(i, state)
    <2> DEFINE t == [sinks[i] EXCEPT !.state = state, !.idle = @ \/ (sinks[i].waits /\ state = "disconnected")]
    <2>1. sinks' = [sinks EXCEPT ![i] = t]
      BY <1>1, <1>2 DEF CcSinkChanges, Sinks
    <2>2. /\ t \in Sinks /\ t.name = sinks[i].name /\ t.stray = sinks[i].stray /\ t.waits = sinks[i].waits
          /\ t.state = state /\ t.idle = (sinks[i].idle \/ (sinks[i].waits /\ state = "disconnected"))
      BY <1>1 DEF Sinks
    <2> HIDE DEF t
    <2> QED BY <1>1, <2>1, <2>2, SinkKeeps DEF Doomed
  <1>3. CASE MiceSinkChanges(i, state)
    <2> DEFINE t == [sinks[i] EXCEPT !.state = state, !.waits = @ /\ state = "streaming",
                                     !.idle = @ \/ (sinks[i].waits /\ state # "streaming")]
    <2>1. sinks' = [sinks EXCEPT ![i] = t]
      BY <1>1, <1>3 DEF MiceSinkChanges, Sinks
    <2>2. /\ t \in Sinks /\ t.name = sinks[i].name /\ t.stray = sinks[i].stray
          /\ t.waits = (sinks[i].waits /\ state = "streaming")
          /\ t.state = state /\ t.idle = (sinks[i].idle \/ (sinks[i].waits /\ state # "streaming"))
      BY <1>1 DEF Sinks
    <2> HIDE DEF t
    <2> QED BY <1>1, <2>1, <2>2, SinkKeeps DEF Doomed
  <1>4. CASE AvahiSinkChanges(i, state)
    <2> DEFINE t == [sinks[i] EXCEPT !.state = state]
    <2>1. sinks' = [sinks EXCEPT ![i] = t] /\ ~ sinks[i].waits
      BY <1>1, <1>4 DEF AvahiSinkChanges, Sinks
    <2>2. /\ t \in Sinks /\ t.name = sinks[i].name /\ t.stray = sinks[i].stray
          /\ t.waits = sinks[i].waits /\ t.idle = sinks[i].idle
      BY <1>1 DEF Sinks
    <2> HIDE DEF t
    <2> QED BY <1>1, <2>1, <2>2, SinkKeeps
  <1> QED BY <1>2, <1>3, <1>4

LEMMA DeferredRemovalKeeps ==
    ASSUME IInv, NEW i \in DOMAIN sinks, TakeOffLater(i)
    PROVE  IInv'
  <1>1. /\ sinks \in Seq(Sinks) /\ sinks[i] \in Sinks /\ sinks' = RemoveAt(sinks, i)
        /\ Forsaken(sinks[i].name)
        /\ UNCHANGED <<kind, provider, address, notes, both, link, retries, stale, crashed, resolving>>
    BY ElementOfSeq, LenProperties DEF IInv, TypeOK, TakeOffLater, subscription, network
  <1>2. /\ sinks' \in Seq(Sinks)
        /\ \A j \in DOMAIN sinks' : \E k \in DOMAIN sinks : k # i /\ sinks'[j] = sinks[k]
        /\ \A k \in DOMAIN sinks : k # i => \E j \in DOMAIN sinks' : sinks'[j] = sinks[k]
    BY <1>1, RemoveAtKeeps
  <1>3. TypeOK'
    <2>1. sinks[i].name \in Names
      BY <1>1 DEF Sinks
    <2>2. lost' \subseteq Names
      BY <1>1, <2>1 DEF Forsaken, IInv, TypeOK
    <2> QED BY <1>1, <1>2, <2>2 DEF IInv, TypeOK
  <1>4. Dropped' /\ Quiet' /\ Ordered'
    <2>1. provider
      BY EmptySeq DEF IInv, Dropped
    <2> QED BY <1>1, <2>1 DEF IInv, Dropped, Quiet, Ordered, Announced
  <1>5. Deferred'
    BY <1>1, <1>2 DEF IInv, Deferred, Doomed
  <1>6. NoGhosts'
    BY <1>1, <1>2 DEF IInv, NoGhosts, Announced, Noted
  <1>7. Found'
    <2>1. Listed \subseteq Listed' \cup {sinks[i].name}
      <3>1. ASSUME NEW k \in DOMAIN sinks, k # i PROVE sinks[k].name \in Listed'
        <4>1. PICK j \in DOMAIN sinks' : sinks'[j] = sinks[k]
          BY <1>2, <3>1
        <4> QED BY <4>1 DEF Listed
      <3> QED BY <3>1 DEF Listed
    <2>2. Asked' = Asked /\ Announced' = Announced /\ Noted("added")' = Noted("added")
      BY <1>1 DEF Asked, Announced, Noted
    <2>4. lost \subseteq lost' /\ sinks[i].name \in Expected' \cup lost'
      BY <1>1 DEF Forsaken
    <2>3. link = "live" => Announced \subseteq Listed \cup Noted("added") \cup Asked \cup lost
      BY DEF IInv, Found, Expected
    <2> QED BY <1>1, <2>1, <2>2, <2>3, <2>4 DEF Found, Expected
  <1> QED BY <1>3, <1>4, <1>5, <1>6, <1>7 DEF IInv
-----------------------------------------------------------------------------
LEMMA AnswersKeep ==
    ASSUME IInv, NEW r \in resolving, CcAnswer(r) \/ MiceAnswer(r) \/ AvahiAnswer(r)
    PROVE  IInv'
  <1>1. ASSUME address[r.name] # None PROVE address[r.name] \in SUBSET Addresses
    <2>1. r.name \in Names
      BY DEF IInv, TypeOK, Requests
    <2> QED BY <1>1, <2>1, AddressAssumption DEF IInv, TypeOK
  <1> DEFINE resolved == Resolved(r.name)
             ipv4 == IF address[r.name] = None THEN {} ELSE address[r.name] \cap IPv4
  <1>2. resolved \in SUBSET (Addresses \cup {None})
    BY <1>1 DEF Resolved, Extracted
  <1>3. ipv4 \in SUBSET (Addresses \cup {None})
    BY <1>1
  <1>4. Answer(r, resolved) \/ Answer(r, ipv4)
    BY DEF CcAnswer, MiceAnswer, AvahiAnswer
  <1> HIDE DEF resolved, ipv4
  <1> QED BY <1>2, <1>3, <1>4, AnswerKeeps

LEMMA StepKeeps == IInv /\ [Next]_vars => IInv'
  <1> SUFFICES ASSUME IInv, [Next]_vars PROVE IInv'
    OBVIOUS
  <1>1. ASSUME NEW n \in Names, Withdraw(n) \/ \E a \in Hosts : Announce(n, a) PROVE IInv'
    BY <1>1, AnnounceKeeps, WithdrawKeeps
  <1>2. ASSUME NEW r \in resolving, CcAnswer(r) \/ MiceAnswer(r) \/ AvahiAnswer(r) PROVE IInv'
    BY <1>2, AnswersKeep
  <1>11. ASSUME NEW n \in Names, AnnounceAgain(n) \/ WithdrawOne(n) PROVE IInv'
    BY <1>11, ProtocolKeeps
  <1>12. CASE StaleCallback
    BY <1>12, StaleKeeps
  <1>3. CASE DeviceConnected \/ DeviceDisconnected
    BY <1>3, DeviceKeeps
  <1>4. CASE SubscriptionEnds \/ HangUp
    BY <1>4, EndKeeps
  <1>5. CASE CcReconnect \/ MiceReconnect
    BY <1>5, ReconnectKeeps
  <1>6. ASSUME NEW n \in Names, CcNotify(n) \/ MiceNotify(n) \/ AvahiNotify(n) PROVE IInv'
    BY <1>6, AddedKeeps, RemovedKeeps
       DEF CcNotify, MiceNotify, AvahiNotify, CcAdded, MiceAdded, AvahiAdded
  <1>7. ASSUME NEW r \in resolving, CcResolved(r) \/ MiceResolved(r) \/ AvahiResolved(r) \/ AvahiDuplicate(r)
        PROVE  IInv'
    BY <1>7, ResolvedKeeps
  <1>8. ASSUME NEW i \in DOMAIN sinks, NEW s \in SinkStates,
               CcSinkChanges(i, s) \/ MiceSinkChanges(i, s) \/ AvahiSinkChanges(i, s)
        PROVE  IInv'
    BY <1>8, SinkChangesKeep
  <1>9. ASSUME NEW i \in DOMAIN sinks, CcDeferredRemoval(i) \/ MiceDeferredRemoval(i) PROVE IInv'
    BY <1>9, DeferredRemovalKeeps DEF CcDeferredRemoval, MiceDeferredRemoval
  <1>10. CASE UNCHANGED vars
    <2>1. UNCHANGED <<network, subscription, resolving, sinks, lost>>
      BY <1>10 DEF vars
    <2>2. TypeOK' /\ Dropped' /\ Quiet' /\ Ordered' /\ Deferred'
      BY <2>1 DEF network, subscription, IInv, TypeOK, Dropped, Quiet, Ordered, Announced, Deferred, Doomed
    <2>3. NoGhosts' /\ Found'
      BY <2>1 DEF network, subscription, IInv, NoGhosts, Found, Expected, Announced, Listed, Noted, Asked
    <2> QED BY <2>2, <2>3 DEF IInv
  <1> QED BY <1>1, <1>2, <1>3, <1>4, <1>5, <1>6, <1>7, <1>8, <1>9, <1>10, <1>11, <1>12 DEF Next, Steps

\* In every reachable state the invariant holds (IInv), of which all but StreamsKept follows.
THEOREM Invariance == Spec => []IInv
  BY InitHolds, StepKeeps, PTL DEF Spec

\* The variables of a provider keep their types.
THEOREM TypeCorrect == Spec => []TypeOK
  <1>1. IInv => TypeOK
    BY DEF IInv
  <1> QED BY Invariance, <1>1, PTL

\* As long as the subscription lives, a sink whose service has gone is on its way out or
\* has missed the removal in one of the three ways (handle_removed, resolve_sink_cb).
THEOREM NeverGhosts == Spec => []NoGhosts
  <1>1. IInv => NoGhosts
    BY DEF IInv
  <1> QED BY Invariance, <1>1, PTL

\* As long as the subscription lives, an announced service is listed or on its way in,
\* but for a failed resolution, a late removal, or one for one of two protocols (handle_added,
\* resolve_sink_cb, service_removed_cb).
THEOREM AlwaysFound == Spec => []Found
  <1>1. IInv => Found
    BY DEF IInv
  <1> QED BY Invariance, <1>1, PTL
-----------------------------------------------------------------------------
(* What is taken off the list. *)

\* The sink has a successor of its name and address, or may go.
Spared(s) ==
    \/ \E j \in DOMAIN sinks' : sinks'[j].name = s.name /\ sinks'[j].ip = s.ip
    \/ s.state = "streaming" => s.idle \/ (kind = "cc" /\ s.name \in Listed')

LEMMA RepliesSpare ==
    ASSUME IInv, NEW r \in resolving,
           CcResolved(r) \/ MiceResolved(r) \/ AvahiResolved(r) \/ AvahiDuplicate(r),
           NEW k \in DOMAIN sinks
    PROVE  Spared(sinks[k])
  <1>1. sinks \in Seq(Sinks) /\ r.name \in Names
    BY DEF IInv, TypeOK, Requests
  <1>2. CASE UNCHANGED sinks
    BY <1>2 DEF Spared
  <1>3. ASSUME NEW others \in Seq(Sinks), Answered(r), Adds(r, others), r.answer \in Addresses \cup {None}
        PROVE  /\ \A j \in DOMAIN others : \E m \in DOMAIN sinks' : sinks'[m] = others[j]
               /\ r.name \in Listed'
    <2> DEFINE new == New(r.name, r.answer)
    <2>1. new \in Sinks /\ new.name = r.name
      BY <1>1, <1>3 DEF New, Sinks, SinkStates
    <2> HIDE DEF new
    <2>2. sinks' = Append(others, new)
      BY <1>3 DEF Adds, new
    <2>3. /\ Len(others) \in Nat /\ DOMAIN others = 1 .. Len(others)
          /\ DOMAIN sinks' = 1 .. Len(others) + 1
          /\ \A j \in 1 .. Len(others) : sinks'[j] = others[j]
          /\ sinks'[Len(others) + 1] = new
      BY <2>1, <2>2, AppendProperties, LenProperties
    <2>4. Len(others) + 1 \in DOMAIN sinks'
      BY <2>3
    <2>5. r.name \in Listed'
      BY <2>1, <2>3, <2>4 DEF Listed
    <2>6. \A j \in DOMAIN others : j \in DOMAIN sinks' /\ sinks'[j] = others[j]
      BY <2>3
    <2> QED BY <2>5, <2>6
  <1>4. CASE Answered(r) /\ kind = "cc" /\ r.answer \in Addresses /\ Adds(r, Without(r.name))
    <2>1. /\ Without(r.name) \in Seq(Sinks)
          /\ sinks[k].name # r.name => \E j \in DOMAIN Without(r.name) : Without(r.name)[j] = sinks[k]
      BY <1>1, WithoutKeeps
    <2>2. /\ \A j \in DOMAIN Without(r.name) : \E m \in DOMAIN sinks' : sinks'[m] = Without(r.name)[j]
          /\ r.name \in Listed'
      BY <1>3, <1>4, <2>1
    <2>3. CASE sinks[k].name # r.name
      BY <2>1, <2>2, <2>3 DEF Spared
    <2>4. CASE sinks[k].name = r.name
      BY <1>4, <2>2, <2>4 DEF Spared
    <2> QED BY <2>3, <2>4
  <1>5. CASE Answered(r) /\ r.answer \in Addresses \cup {None} /\ Adds(r, sinks)
    BY <1>1, <1>3, <1>5 DEF Spared
  <1>6. r \in Requests /\ r.answer \in Addresses \cup {None, "asked", "watching", "failed"}
    BY DEF IInv, TypeOK, Requests
  <1>7. CASE CcResolved(r)
    BY <1>2, <1>4, <1>7 DEF CcResolved, Failed, Repeated
  <1>8. CASE MiceResolved(r)
    BY <1>2, <1>5, <1>6, <1>8 DEF MiceResolved, Answered, Failed, Repeated
  <1>9. CASE AvahiResolved(r)
    BY <1>2, <1>5, <1>6, <1>9 DEF AvahiResolved, Answered, Failed
  <1>10. CASE AvahiDuplicate(r)
    BY <1>2, <1>10 DEF AvahiDuplicate, Repeated
  <1> QED BY <1>7, <1>8, <1>9, <1>10

LEMMA StepSpares ==
    ASSUME IInv, Next, kind # "avahi", provider', NEW k \in DOMAIN sinks
    PROVE  Spared(sinks[k])
  <1>1. sinks \in Seq(Sinks) /\ \A i \in DOMAIN sinks : sinks[i] \in Sinks
    BY ElementOfSeq, LenProperties DEF IInv, TypeOK
  <1>2. CASE UNCHANGED sinks
    BY <1>2 DEF Spared
  <1>3. CASE CcReconnect \/ MiceReconnect
    <2>1. sinks' = [i \in DOMAIN sinks |-> [sinks[i] EXCEPT !.stray = @ \/ sinks[i].name \notin Announced]]
      BY <1>3 DEF CcReconnect, MiceReconnect, Reconnect
    <2>2. k \in DOMAIN sinks' /\ sinks'[k].name = sinks[k].name /\ sinks'[k].ip = sinks[k].ip
      BY <1>1, <2>1 DEF Sinks
    <2> QED BY <2>2 DEF Spared
  <1>4. ASSUME NEW n, CcRemoved(n) \/ MiceRemoved(n) \/ AvahiRemoved(n) PROVE Spared(sinks[k])
    <2>1. \/ \E j \in DOMAIN sinks' : Follows(sinks'[j], sinks[k])
          \/ sinks[k].name = n /\ (kind = "avahi" \/ sinks[k].state # "streaming")
      BY <1>4, RemovedSinks DEF IInv
    <2> QED BY <2>1 DEF Spared, Follows
  <1>5. ASSUME NEW r \in resolving, CcResolved(r) \/ MiceResolved(r) \/ AvahiResolved(r) \/ AvahiDuplicate(r)
        PROVE  Spared(sinks[k])
    BY <1>5, RepliesSpare
  <1>6. ASSUME NEW i \in DOMAIN sinks, NEW s \in SinkStates, CcSinkChanges(i, s) \/ MiceSinkChanges(i, s)
        PROVE  Spared(sinks[k])
    <2>1. sinks[i] \in Sinks /\ sinks[k] \in Sinks
      BY <1>1
    <2>2. CASE CcSinkChanges(i, s)
      <3> DEFINE t == [sinks[i] EXCEPT !.state = s, !.idle = @ \/ (sinks[i].waits /\ s = "disconnected")]
      <3>1. sinks' = [sinks EXCEPT ![i] = t]
        BY <2>1, <2>2 DEF CcSinkChanges, Sinks
      <3>2. t.name = sinks[i].name /\ t.ip = sinks[i].ip
        BY <2>1 DEF Sinks
      <3> HIDE DEF t
      <3> QED BY <3>1, <3>2 DEF Spared
    <2>3. CASE MiceSinkChanges(i, s)
      <3> DEFINE t == [sinks[i] EXCEPT !.state = s, !.waits = @ /\ s = "streaming",
                                       !.idle = @ \/ (sinks[i].waits /\ s # "streaming")]
      <3>1. sinks' = [sinks EXCEPT ![i] = t]
        BY <2>1, <2>3 DEF MiceSinkChanges, Sinks
      <3>2. t.name = sinks[i].name /\ t.ip = sinks[i].ip
        BY <2>1 DEF Sinks
      <3> HIDE DEF t
      <3> QED BY <3>1, <3>2 DEF Spared
    <2> QED BY <1>6, <2>2, <2>3
  <1>7. ASSUME NEW i \in DOMAIN sinks, TakeOffLater(i) PROVE Spared(sinks[k])
    <2>1. /\ sinks[i].idle /\ sinks' = RemoveAt(sinks, i)
          /\ k # i => \E j \in DOMAIN RemoveAt(sinks, i) : RemoveAt(sinks, i)[j] = sinks[k]
      BY <1>1, <1>7, RemoveAtKeeps DEF TakeOffLater
    <2> QED BY <2>1 DEF Spared
  <1>8. ASSUME NEW n \in Names, CcNotify(n) \/ MiceNotify(n) \/ AvahiNotify(n) PROVE Spared(sinks[k])
    BY <1>2, <1>4, <1>8
       DEF CcNotify, MiceNotify, AvahiNotify, CcAdded, MiceAdded, AvahiAdded, Ask
  <1>9. CASE DeviceDisconnected
    BY <1>9 DEF DeviceDisconnected
  <1>10. ASSUME NEW n \in Names,
                \/ Withdraw(n) \/ AnnounceAgain(n) \/ WithdrawOne(n)
                \/ \E a \in Hosts : Announce(n, a)
         PROVE  UNCHANGED sinks
    BY <1>10 DEF Withdraw, Announce, AnnounceAgain, WithdrawOne
  <1>11. ASSUME NEW r \in resolving, CcAnswer(r) \/ MiceAnswer(r) \/ AvahiAnswer(r) PROVE UNCHANGED sinks
    BY <1>11 DEF CcAnswer, MiceAnswer, AvahiAnswer, Answer
  <1>12. CASE DeviceConnected \/ SubscriptionEnds \/ HangUp \/ StaleCallback
    BY <1>2, <1>12 DEF DeviceConnected, SubscriptionEnds, HangUp, StaleCallback
  <1>13. ASSUME NEW i \in DOMAIN sinks, CcDeferredRemoval(i) \/ MiceDeferredRemoval(i) PROVE Spared(sinks[k])
    BY <1>7, <1>13 DEF CcDeferredRemoval, MiceDeferredRemoval
  <1>14. ASSUME NEW i \in DOMAIN sinks, NEW s \in SinkStates, AvahiSinkChanges(i, s) PROVE FALSE
    BY <1>14 DEF AvahiSinkChanges
  <1> QED BY <1>2, <1>3, <1>5, <1>6, <1>8, <1>9, <1>10, <1>11, <1>12, <1>13, <1>14 DEF Next, Steps

\* A stream is not taken off the list because its service goes: only with its device, for
\* another address of a Chromecast, or by a removal scheduled before (CcRemoved, MiceRemoved).
THEOREM StreamsAlwaysKept == Spec => StreamsKept
  <1>1. ASSUME IInv, Next, kind # "avahi", provider', NEW s \in Gone, s.state = "streaming"
        PROVE  s.idle \/ (kind = "cc" /\ s.name \in Listed')
    <2>1. PICK k \in DOMAIN sinks :
              /\ s = sinks[k]
              /\ \A j \in DOMAIN sinks' : <<sinks'[j].name, sinks'[j].ip>> # <<sinks[k].name, sinks[k].ip>>
      BY DEF Gone
    <2>2. Spared(sinks[k])
      BY <1>1, StepSpares
    <2> QED BY <1>1, <2>1, <2>2 DEF Spared
  <1>2. IInv /\ [Next]_vars =>
            [kind # "avahi" /\ provider' =>
                \A s \in Gone : s.state = "streaming" => s.idle \/ (kind = "cc" /\ s.name \in Listed')]_vars
    BY <1>1
  <1> QED BY Invariance, <1>2, PTL DEF Spec, StreamsKept
=============================================================================
