------------------------ MODULE MetaProvider_proofs ------------------------
(***************************************************************************)
(* The de-duplication invariants for every population of sinks.            *)
(***************************************************************************)
EXTENDS MetaProvider, TLAPS

\* The types of the variables the callbacks leave alone.
LoopTypeOK ==
    /\ found \in SUBSET Sinks
    /\ registered \in SUBSET Providers
    /\ discover \in BOOLEAN
    /\ scanning \in [Providers -> BOOLEAN]
    /\ todo \in [loop : {"none", "add", "remove"},
                 by : SUBSET Providers, sinks : SUBSET Sinks]

\* The types of the variables a callback of the meta provider can change.
ListTypeOK ==
    /\ listed \in SUBSET Metas
    /\ children \in [Metas -> SUBSET Sinks]
    /\ current \in [Metas -> Sinks \union {NoSink}]
    /\ nextMeta \in 1 .. MaxMetas + 1
    /\ leaks \in [Metas -> 0 .. 2]
    /\ rows \in SUBSET Metas
    /\ displays \in SUBSET (Metas \X (Sinks \union {NoSink}))
    /\ aborted \in BOOLEAN

\* The list is in order: meta sinks are numbered as they are created, only listed
\* ones have children, and they keep devices apart.
ListOK ==
    /\ ListTypeOK
    /\ listed \subseteq 1 .. nextMeta - 1
    /\ \A m \in Metas \ listed : children[m] = {}
    /\ Disjoint /\ Separated /\ Usable

\* The loop of add_provider has sinks to add that no meta sink holds; the loop
\* of remove_provider still has to visit every held sink of its provider.
LoopOK ==
    /\ todo.loop = "none" => todo = Idle
    /\ todo.loop # "none" => \E p \in Providers :
         /\ p \in registered
         /\ todo.by = {p}
         /\ \A s \in todo.sinks : s \in found /\ Owner[s] = p
    /\ todo.loop = "add" => \A s \in todo.sinks, m \in Metas : s \notin children[m]
    /\ todo.loop = "remove" =>
         \A m \in Metas : \A s \in children[m] : Owner[s] \in todo.by => s \in todo.sinks

\* What meta sinks hold is visible.
HeldOK == \A m \in Metas : children[m] \subseteq Visible

\* The inductive invariant.
IInv == LoopTypeOK /\ ListOK /\ LoopOK /\ HeldOK

\* Sharing an address does not depend on the order.
LEMMA SameDeviceSym ==
    ASSUME NEW s \in Sinks, NEW t \in Sinks, SameDevice(s, t)
    PROVE  SameDevice(t, s)
  BY DEF SameDevice

\* What nd_meta_sink_update selects is a child of highest priority, if any is left.
LEMMA UpdateBest ==
    ASSUME NEW cur \in Sinks \union {NoSink}, NEW ss \in SUBSET Sinks,
           NEW best \in Update(cur, ss)
    PROVE  /\ best \in Sinks \union {NoSink}
           /\ ss # {} => best \in Preferred(ss)
  BY MetaAssumption DEF Update, Preferred

\* Initially the invariant holds: there are no meta sinks.
LEMMA InitInv == Init => IInv
  <1> SUFFICES ASSUME Init PROVE IInv
    OBVIOUS
  <1> USE MetaAssumption DEF Init, Metas
  <1>1. TypeOK
    <2>1. /\ nextMeta \in 1 .. MaxMetas + 1
          /\ children \in [Metas -> SUBSET Sinks]
          /\ current \in [Metas -> Sinks \union {NoSink}]
          /\ leaks \in [Metas -> 0 .. 2]
      OBVIOUS
    <2>2. todo \in [loop : {"none", "add", "remove"}, by : SUBSET Providers, sinks : SUBSET Sinks]
      BY DEF Idle
    <2>3. displays \in SUBSET (Metas \X (Sinks \union {NoSink}))
      OBVIOUS
    <2>4. scanning \in [Providers -> BOOLEAN] /\ discover \in BOOLEAN /\ aborted \in BOOLEAN
      OBVIOUS
    <2>5. found \in SUBSET Sinks /\ registered \in SUBSET Providers
          /\ listed \in SUBSET Metas /\ rows \in SUBSET Metas
      OBVIOUS
    <2> QED BY <2>1, <2>2, <2>3, <2>4, <2>5 DEF TypeOK
  <1>2. LoopOK
    BY DEF LoopOK, Idle
  <1>3. HeldOK
    BY DEF HeldOK, Visible
  <1>4. Disjoint /\ Separated /\ Usable
    BY DEF Disjoint, Separated, Usable
  <1>5. LoopTypeOK /\ ListTypeOK
    BY <1>1 DEF TypeOK, LoopTypeOK, ListTypeOK
  <1> QED BY <1>2, <1>3, <1>4, <1>5 DEF IInv, ListOK
-----------------------------------------------------------------------------
\* An export lists meta sinks with their current sinks.
LEMMA SnapshotType ==
    ASSUME NEW ms \in SUBSET Metas, NEW cur \in [Metas -> Sinks \union {NoSink}]
    PROVE  Snapshot(ms, cur) \in SUBSET (Metas \X (Sinks \union {NoSink}))
  BY DEF Snapshot

\* A new meta sink for a sink that matches none keeps the list in order.
LEMMA NewMetaKeeps ==
    ASSUME ListOK, NEW s \in Sinks, \A m \in Metas : s \notin children[m], NewMeta(s)
    PROVE  /\ ListOK'
           /\ \A m \in Metas : children'[m] \subseteq children[m] \union {s}
  <1> USE DEF Metas
  <1> DEFINE k == nextMeta
  <1>1. k \in Metas /\ k \notin listed /\ MaxMetas \in Nat
    BY MetaAssumption DEF NewMeta, Unmatched, Export, ListOK, ListTypeOK
  <1>2. /\ listed' = listed \union {k}
        /\ children' = [children EXCEPT ![k] = {s}]
        /\ current' = [current EXCEPT ![k] = s]
        /\ nextMeta' = k + 1
    BY DEF NewMeta, Unmatched, Export
  <1>3. ListTypeOK'
    <2>1. listed' \in SUBSET Metas /\ current' \in [Metas -> Sinks \union {NoSink}]
      BY <1>1, <1>2 DEF ListOK, ListTypeOK
    <2>2. displays' \in SUBSET (Metas \X (Sinks \union {NoSink}))
      <3>1. displays' = Snapshot(listed', current')
        BY DEF NewMeta, Unmatched, Export
      <3> HIDE DEF Metas
      <3> QED BY <2>1, <3>1, SnapshotType
    <2>3. children' \in [Metas -> SUBSET Sinks] /\ nextMeta' \in 1 .. MaxMetas + 1
      BY <1>1, <1>2 DEF ListOK, ListTypeOK
    <2>4. rows' \in SUBSET Metas /\ UNCHANGED <<leaks, aborted>>
      BY <1>1 DEF NewMeta, Unmatched, Export, ListOK, ListTypeOK
    <2> QED BY <2>1, <2>2, <2>3, <2>4 DEF ListOK, ListTypeOK
  <1>4. children'[k] = {s} /\ \A m \in Metas \ {k} : children'[m] = children[m]
    BY <1>1, <1>2 DEF ListOK, ListTypeOK
  <1>5. listed' \subseteq 1 .. nextMeta' - 1
    BY <1>1, <1>2 DEF ListOK, ListTypeOK
  <1>6. \A m \in Metas \ listed' : children'[m] = {}
    BY <1>2, <1>4 DEF ListOK
  <1>7. Disjoint'
    BY <1>4 DEF ListOK, Disjoint
  <1>8. Separated'
    <2>1. \A m \in listed : \A t \in children[m] : ~ SameDevice(s, t) /\ ~ SameDevice(t, s)
      BY DEF NewMeta, Unmatched, Export, MatchesSink, SameDevice
    <2>2. \A m \in listed : m \in Metas /\ m # k
      BY <1>1 DEF ListOK, ListTypeOK
    <2>3. \A m \in listed : children'[m] = children[m]
      BY <1>4, <2>2
    <2>4. SUFFICES ASSUME NEW m \in listed', NEW n \in listed',
                          NEW t \in children'[m], NEW u \in children'[n], SameDevice(t, u)
                   PROVE  m = n
      BY DEF Separated, SameDevice
    <2>5. CASE m = k \/ n = k
      BY <1>2, <1>4, <2>1, <2>3, <2>4, <2>5
    <2>6. CASE m # k /\ n # k
      BY <1>2, <2>3, <2>4, <2>6 DEF ListOK, Separated
    <2> QED BY <2>5, <2>6
  <1>9. Usable'
    <2>1. s \in Preferred({s})
      BY MetaAssumption DEF Preferred
    <2> QED BY <1>1, <1>2, <1>4, <2>1 DEF ListOK, ListTypeOK, Usable
  <1>10. \A m \in Metas : children'[m] \subseteq children[m] \union {s}
    BY <1>4
  <1> QED BY <1>3, <1>5, <1>6, <1>7, <1>8, <1>9, <1>10 DEF ListOK

\* A sink joins the oldest meta sink it matches; what survives of the others is
\* moved there, so no two listed meta sinks share an address afterwards.
LEMMA JoinMetaKeeps ==
    ASSUME ListOK, NEW s \in Sinks, \A m \in Metas : s \notin children[m], JoinMeta(s)
    PROVE  /\ ListOK'
           /\ \A t \in Sinks : \A m \in Metas :
                t \in children'[m] => t = s \/ \E n \in Metas : t \in children[n]
  <1> DEFINE matching == {m \in listed : MatchesSink(m, s)}
  <1>1. PICK kept \in matching :
          LET others == matching \ {kept}
              moved == UNION {children[m] : m \in {n \in others : Survives(n)}}
          IN /\ IsFirst(kept, matching)
             /\ s \notin children[kept]
             /\ listed' = listed \ others
             /\ children' = [m \in Metas |->
                               IF m = kept THEN children[kept] \union moved \union {s}
                               ELSE IF m \in others THEN {} ELSE children[m]]
             /\ \E best \in Update(current[kept], children'[kept]) :
                  current' = [m \in Metas |->
                                IF m = kept THEN best
                                ELSE IF m \in others THEN NoSink ELSE current[m]]
             /\ rows' = rows \ {m \in others : Announced(m)}
             /\ displays' = Snapshot(listed', current')
             /\ UNCHANGED <<nextMeta, leaks, aborted>>
    BY DEF JoinMeta, Merge, Export
  <1> DEFINE others == matching \ {kept}
             moved == UNION {children[m] : m \in {n \in others : Survives(n)}}
  <1>2. /\ kept \in listed /\ kept \in Metas /\ kept \notin others
        /\ others \subseteq listed /\ listed \subseteq Metas
    BY DEF ListOK, ListTypeOK
  <1>3. moved \subseteq Sinks /\ \A t \in moved : \E m \in others : t \in children[m]
    BY <1>2 DEF ListOK, ListTypeOK
  <1>4. /\ listed' = listed \ others
        /\ children' \in [Metas -> SUBSET Sinks]
        /\ children'[kept] = children[kept] \union moved \union {s}
        /\ \A m \in others : children'[m] = {}
        /\ \A m \in Metas \ (others \union {kept}) : children'[m] = children[m]
    <2>1. /\ listed' = listed \ others
          /\ children' = [m \in Metas |->
                            IF m = kept THEN children[kept] \union moved \union {s}
                            ELSE IF m \in others THEN {} ELSE children[m]]
      BY <1>1
    <2> HIDE DEF moved, others, matching
    <2>2. children[kept] \union moved \union {s} \in SUBSET Sinks
      BY <1>2, <1>3 DEF ListOK, ListTypeOK
    <2>3. children' \in [Metas -> SUBSET Sinks]
      BY <2>1, <2>2 DEF ListOK, ListTypeOK
    <2>4. \A m \in others : m \in Metas /\ m # kept
      BY <1>2
    <2> QED BY <1>2, <2>1, <2>3, <2>4
  <1>5. PICK best \in Update(current[kept], children'[kept]) :
          current' = [m \in Metas |->
                        IF m = kept THEN best
                        ELSE IF m \in others THEN NoSink ELSE current[m]]
    BY <1>1
  <1> HIDE DEF moved, matching
  <1>6. /\ best \in Sinks \union {NoSink}
        /\ best \in Preferred(children'[kept])
    <2>1. current[kept] \in Sinks \union {NoSink} /\ children'[kept] \in SUBSET Sinks
      BY <1>2, <1>4 DEF ListOK, ListTypeOK
    <2>2. children'[kept] # {}
      BY <1>4
    <2> QED BY <2>1, <2>2, UpdateBest
  <1>7. /\ current' \in [Metas -> Sinks \union {NoSink}]
        /\ current'[kept] = best
        /\ \A m \in Metas \ (others \union {kept}) : current'[m] = current[m]
    BY <1>2, <1>5, <1>6 DEF ListOK, ListTypeOK
  <1>8. ListTypeOK'
    <2>1. displays' \in SUBSET (Metas \X (Sinks \union {NoSink}))
      <3>1. listed' \in SUBSET Metas
        BY <1>2, <1>4
      <3> QED BY <1>1, <1>7, <3>1, SnapshotType
    <2>2. rows' \in SUBSET Metas /\ UNCHANGED <<nextMeta, leaks, aborted>>
      BY <1>1 DEF ListOK, ListTypeOK
    <2> QED BY <1>2, <1>4, <1>7, <2>1, <2>2 DEF ListOK, ListTypeOK
  <1>9. /\ listed' \subseteq 1 .. nextMeta' - 1
        /\ \A m \in Metas \ listed' : children'[m] = {}
    <2>1. UNCHANGED nextMeta
      BY <1>1
    <2> QED BY <1>2, <1>4, <2>1 DEF ListOK
  <1>10. Disjoint'
    BY <1>2, <1>3, <1>4 DEF ListOK, Disjoint
  <1>11. Separated'
    <2>1. \A n \in listed \ matching : \A t \in children[n] : ~ SameDevice(s, t) /\ ~ SameDevice(t, s)
      BY DEF matching, MatchesSink, SameDevice
    <2>2. \A t \in children'[kept] : t = s \/ \E m \in matching : t \in children[m]
      BY <1>2, <1>3, <1>4 DEF matching
    <2>3. \A n \in listed' \ {kept} : n \in listed \ matching /\ children'[n] = children[n]
      BY <1>2, <1>4
    <2>4. matching \subseteq listed
      BY DEF matching
    <2>5. ASSUME NEW n \in listed' \ {kept}, NEW u \in children'[n], NEW t \in children'[kept]
          PROVE  ~ SameDevice(t, u) /\ ~ SameDevice(u, t)
      <3>1. n \in listed \ matching /\ u \in children[n]
        BY <2>3
      <3>2. CASE t = s
        BY <2>1, <3>1, <3>2
      <3>3. CASE \E m \in matching : t \in children[m]
        <4> PICK m \in matching : t \in children[m]
          BY <3>3
        <4>1. m \in listed /\ n \in listed /\ m # n
          BY <2>4, <3>1
        <4> QED BY <3>1, <4>1 DEF ListOK, Separated
      <3> QED BY <2>2, <3>2, <3>3
    <2>6. \A m, n \in listed' \ {kept} : m \in listed /\ n \in listed
      BY <2>3
    <2> QED BY <2>3, <2>5, <2>6 DEF ListOK, Separated
  <1>12. Usable'
    BY <1>2, <1>4, <1>6, <1>7 DEF ListOK, Usable, matching
  <1>13. ASSUME NEW t \in Sinks, NEW m \in Metas, t \in children'[m]
         PROVE  t = s \/ \E n \in Metas : t \in children[n]
    BY <1>2, <1>3, <1>4, <1>13
  <1> QED BY <1>8, <1>9, <1>10, <1>11, <1>12, <1>13 DEF ListOK

\* A sink that arrives leaves the list in order, and is the only new child.
LEMMA SinkAddedKeeps ==
    ASSUME ListOK, NEW s \in Sinks, \A m \in Metas : s \notin children[m], SinkAddedCb(s)
    PROVE  /\ ListOK'
           /\ \A t \in Sinks : \A m \in Metas :
                t \in children'[m] => t = s \/ \E n \in Metas : t \in children[n]
  <1>1. CASE NewMeta(s)
    BY <1>1, NewMetaKeeps
  <1>2. CASE JoinMeta(s)
    BY <1>2, JoinMetaKeeps
  <1>3. CASE AddCrash(s)
    BY <1>3 DEF AddCrash, ListOK, ListTypeOK, Disjoint, Separated, Usable
  <1> QED BY <1>1, <1>2, <1>3 DEF SinkAddedCb

\* Removing a child leaves the list in order; the sink has no other holder.
LEMMA RemoveChildKeeps ==
    ASSUME ListOK, NEW s \in Sinks, RemoveChild(s)
    PROVE  /\ ListOK'
           /\ \A m \in Metas : children'[m] = children[m] \ {s}
  <1>1. PICK m \in listed :
          /\ IsFirst(m, {n \in listed : s \in children[n]})
          /\ leaks' = [leaks EXCEPT ![m] = IF @ = 2 THEN 2 ELSE @ + 1]
          /\ children' = [children EXCEPT ![m] = @ \ {s}]
          /\ \E best \in Update(current[m], children'[m]) :
               current' = [current EXCEPT ![m] = best]
          /\ IF children'[m] = {}
             THEN listed' = listed \ {m} /\ rows' = rows \ {m}
             ELSE UNCHANGED <<listed, rows>>
    BY DEF RemoveChild, MoreLeaks, RowsWithout, Export
  <1>2. displays' = Snapshot(listed', current') /\ UNCHANGED <<nextMeta, aborted>>
    BY DEF RemoveChild, MoreLeaks, RowsWithout, Export
  <1>3. m \in Metas /\ s \in children[m]
    BY <1>1 DEF ListOK, ListTypeOK, IsFirst
  <1>4. /\ children' \in [Metas -> SUBSET Sinks]
        /\ children'[m] = children[m] \ {s}
        /\ \A n \in Metas \ {m} : children'[n] = children[n]
    BY <1>1, <1>3 DEF ListOK, ListTypeOK
  <1>5. PICK best \in Update(current[m], children'[m]) : current' = [current EXCEPT ![m] = best]
    BY <1>1
  <1>6. best \in Sinks \union {NoSink} /\ (children'[m] # {} => best \in Preferred(children'[m]))
    BY <1>3, <1>4, UpdateBest DEF ListOK, ListTypeOK
  <1>7. /\ current' \in [Metas -> Sinks \union {NoSink}]
        /\ current'[m] = best
        /\ \A n \in Metas \ {m} : current'[n] = current[n]
    BY <1>3, <1>5, <1>6 DEF ListOK, ListTypeOK
  <1>8. listed' \subseteq listed /\ rows' \subseteq rows
    BY <1>1
  <1>9. \A n \in Metas \ listed' : children'[n] = {}
    BY <1>1, <1>4 DEF ListOK
  <1>10. ListTypeOK'
    <2>1. listed' \in SUBSET Metas /\ rows' \in SUBSET Metas
      BY <1>8 DEF ListOK, ListTypeOK
    <2>2. displays' \in SUBSET (Metas \X (Sinks \union {NoSink}))
      BY <1>2, <1>7, <2>1, SnapshotType
    <2>3. leaks' \in [Metas -> 0 .. 2]
      BY <1>1, <1>3 DEF ListOK, ListTypeOK
    <2> QED BY <1>2, <1>4, <1>7, <2>1, <2>2, <2>3 DEF ListOK, ListTypeOK
  <1>11. \A n \in Metas : children'[n] = children[n] \ {s}
    <2>1. \A n \in Metas \ {m} : s \notin children[n]
      BY <1>3 DEF ListOK, Disjoint
    <2> QED BY <1>4, <2>1
  <1>12. Disjoint'
    BY <1>11 DEF ListOK, Disjoint
  <1>13. Separated'
    <2>1. \A n \in listed' : n \in listed /\ children'[n] \subseteq children[n]
      BY <1>8, <1>11 DEF ListOK, ListTypeOK
    <2> SUFFICES ASSUME NEW n \in listed', NEW o \in listed',
                        NEW t \in children'[n], NEW u \in children'[o], SameDevice(t, u)
                 PROVE  n = o
      BY DEF Separated, SameDevice
    <2> QED BY <2>1 DEF ListOK, Separated
  <1>14. Usable'
    <2> SUFFICES ASSUME NEW n \in listed' PROVE current'[n] \in Preferred(children'[n])
      BY DEF Usable, Preferred
    <2>1. n \in listed /\ n \in Metas
      BY <1>8 DEF ListOK, ListTypeOK
    <2>2. CASE n = m
      BY <1>1, <1>6, <1>7, <2>2
    <2>3. CASE n # m
      BY <1>4, <1>7, <2>1, <2>3 DEF ListOK, Usable
    <2> QED BY <2>2, <2>3
  <1>15. listed' \subseteq 1 .. nextMeta' - 1
    BY <1>2, <1>8 DEF ListOK
  <1> QED BY <1>9, <1>10, <1>11, <1>12, <1>13, <1>14, <1>15 DEF ListOK

\* A sink that goes leaves the list in order, and no meta sink holds it any more.
LEMMA SinkRemovedKeeps ==
    ASSUME ListOK, NEW s \in Sinks, SinkRemovedCb(s)
    PROVE  /\ ListOK'
           /\ \A m \in Metas : children'[m] = children[m] \ {s}
  <1>1. CASE RemoveUnknown(s)
    <2>1. UNCHANGED <<listed, children, current, nextMeta, leaks, rows, displays, aborted>>
      BY <1>1 DEF RemoveUnknown
    <2>2. ListOK'
      BY <2>1 DEF ListOK, ListTypeOK, Disjoint, Separated, Usable
    <2>3. \A m \in Metas : s \notin children[m]
      BY <1>1 DEF RemoveUnknown, ListOK
    <2> QED BY <2>1, <2>2, <2>3 
  <1>2. CASE RemoveChild(s)
    BY <1>2, RemoveChildKeeps
  <1> QED BY <1>1, <1>2 DEF SinkRemovedCb
-----------------------------------------------------------------------------
\* A step that leaves the list alone leaves it in order.
LEMMA UnchangedKeeps ==
    ASSUME ListOK, ListUnchanged
    PROVE  ListOK' /\ children' = children
  BY DEF ListUnchanged, ListOK, ListTypeOK, Disjoint, Separated, Usable

\* The main loop runs between registrations only.
LEMMA MainLoopIdle ==
    ASSUME MainLoop
    PROVE  todo.loop = "none"
  BY DEF MainLoop, Idle

\* SinkFound keeps the invariant: a sink that was not found is held by nobody.
LEMMA SinkFoundKeeps ==
    ASSUME IInv, NEW s \in Sinks, SinkFound(s)
    PROVE  IInv'
  <1>1. /\ todo = Idle /\ todo' = todo /\ s \notin found
        /\ found' = found \union {s} /\ UNCHANGED <<registered, discover, scanning>>
    BY DEF SinkFound, MainLoop
  <1>2. LoopTypeOK' /\ LoopOK'
    BY <1>1 DEF IInv, HeldOK, LoopTypeOK, LoopOK, Idle
  <1>3. \A m \in Metas : s \notin children[m]
    BY <1>1 DEF IInv, HeldOK, Visible
  <1>4. /\ ListOK'
        /\ \A m \in Metas : children'[m] \subseteq Visible'
    <2>1. CASE Owner[s] \in registered
      <3>1. SinkAddedCb(s)
        BY <2>1 DEF SinkFound
      <3>2. /\ ListOK'
            /\ \A t \in Sinks : \A m \in Metas :
                 t \in children'[m] => t = s \/ \E n \in Metas : t \in children[n]
        BY <1>3, <3>1, SinkAddedKeeps DEF IInv, HeldOK
      <3>3. \A m \in Metas : children'[m] \subseteq Sinks
        BY <3>2 DEF ListOK, ListTypeOK
      <3> QED BY <1>1, <2>1, <3>2, <3>3 DEF IInv, HeldOK, Visible
    <2>2. CASE Owner[s] \notin registered
      <3>1. ListUnchanged
        BY <2>2 DEF SinkFound
      <3> QED BY <1>1, <3>1, UnchangedKeeps DEF IInv, HeldOK, Visible
    <2> QED BY <2>1, <2>2
  <1> QED BY <1>2, <1>4 DEF IInv, HeldOK

\* SinkLost keeps the invariant: nobody holds the sink afterwards.
LEMMA SinkLostKeeps ==
    ASSUME IInv, NEW s \in Sinks, SinkLost(s)
    PROVE  IInv'
  <1>1. /\ todo = Idle /\ todo' = todo
        /\ found' = found \ {s} /\ UNCHANGED <<registered, discover, scanning>>
    BY DEF SinkLost, MainLoop
  <1>2. LoopTypeOK' /\ LoopOK'
    BY <1>1 DEF IInv, HeldOK, LoopTypeOK, LoopOK, Idle
  <1>3. ListOK' /\ \A m \in Metas : children'[m] = children[m] \ {s}
    <2>1. CASE Owner[s] \in registered
      BY <2>1, SinkRemovedKeeps DEF IInv, HeldOK, SinkLost
    <2>2. CASE Owner[s] \notin registered
      <3>1. ListUnchanged
        BY <2>2 DEF SinkLost
      <3>2. \A m \in Metas : s \notin children[m]
        BY <2>2 DEF IInv, HeldOK, Visible
      <3> QED BY <3>1, <3>2, UnchangedKeeps DEF IInv, HeldOK
    <2> QED BY <2>1, <2>2
  <1>4. \A m \in Metas : children'[m] \subseteq Visible'
    BY <1>1, <1>3 DEF IInv, HeldOK, Visible
  <1> QED BY <1>2, <1>3, <1>4 DEF IInv, HeldOK

\* Plugging a provider in keeps the invariant, through every iteration.
LEMMA AddProviderKeeps ==
    ASSUME IInv, NEW p \in Providers,
           AddProvider(p) \/ AddExisting(p) \/ AddProviderReturns(p)
    PROVE  IInv'
  <1>1. CASE AddProvider(p)
    <2>1. ListOK' /\ children' = children
      BY <1>1, UnchangedKeeps DEF IInv, HeldOK, AddProvider, Existing, Synced
    <2>2. /\ p \notin registered /\ registered' = registered \union {p}
          /\ scanning' = [scanning EXCEPT ![p] = discover]
          /\ todo' = [loop |-> "add", by |-> {p}, sinks |-> {s \in found : Owner[s] = p}]
          /\ UNCHANGED <<found, discover>>
      BY <1>1 DEF AddProvider, Existing, Synced
    <2>3. LoopTypeOK'
      BY <2>2 DEF IInv, HeldOK, LoopTypeOK
    <2>4. LoopOK'
      BY <2>1, <2>2 DEF IInv, HeldOK, LoopOK, Visible
    <2>5. \A m \in Metas : children'[m] \subseteq Visible'
      BY <2>1, <2>2 DEF IInv, HeldOK, Visible
    <2> QED BY <2>1, <2>3, <2>4, <2>5 DEF IInv, HeldOK
  <1>2. CASE AddExisting(p)
    <2>1. /\ todo.loop = "add" /\ todo.by = {p}
          /\ UNCHANGED <<found, registered, discover, scanning>>
      BY <1>2 DEF AddExisting
    <2>2. PICK s \in todo.sinks : SinkAddedCb(s) /\ todo' = [todo EXCEPT !.sinks = @ \ {s}]
      BY <1>2 DEF AddExisting
    <2>3. /\ s \in Sinks /\ s \in Visible
          /\ \A m \in Metas : s \notin children[m]
      BY <2>1 DEF IInv, HeldOK, LoopTypeOK, LoopOK, Visible
    <2>4. /\ ListOK'
          /\ \A t \in Sinks : \A m \in Metas :
               t \in children'[m] => t = s \/ \E n \in Metas : t \in children[n]
      BY <2>2, <2>3, SinkAddedKeeps DEF IInv, HeldOK
    <2>5. /\ todo' \in [loop : {"none", "add", "remove"}, by : SUBSET Providers, sinks : SUBSET Sinks]
          /\ todo'.loop = "add" /\ todo'.by = {p} /\ todo'.sinks = todo.sinks \ {s}
      BY <2>1, <2>2 DEF IInv, HeldOK, LoopTypeOK
    <2>6. LoopTypeOK'
      BY <2>1, <2>5 DEF IInv, HeldOK, LoopTypeOK
    <2>7. LoopOK'
      BY <2>1, <2>4, <2>5 DEF IInv, HeldOK, LoopOK, LoopTypeOK
    <2>8. \A m \in Metas : children'[m] \subseteq Visible'
      BY <2>1, <2>3, <2>4 DEF IInv, HeldOK, Visible, ListOK, ListTypeOK
    <2> QED BY <2>4, <2>6, <2>7, <2>8 DEF IInv, HeldOK
  <1>3. CASE AddProviderReturns(p)
    <2>1. ListOK' /\ children' = children
      BY <1>3, UnchangedKeeps DEF IInv, HeldOK, AddProviderReturns
    <2>2. todo' = Idle /\ UNCHANGED <<found, registered, discover, scanning>>
      BY <1>3 DEF AddProviderReturns
    <2> QED BY <2>1, <2>2 DEF IInv, HeldOK, LoopTypeOK, LoopOK, Idle, Visible
  <1> QED BY <1>1, <1>2, <1>3

\* Unplugging a provider keeps the invariant: when the loop is done no sink of
\* the provider is held.
LEMMA RemoveProviderKeeps ==
    ASSUME IInv, NEW p \in Providers,
           RemoveProvider(p) \/ RemoveExisting(p) \/ RemoveProviderReturns(p)
    PROVE  IInv'
  <1>1. CASE RemoveProvider(p)
    <2>1. ListOK' /\ children' = children
      BY <1>1, UnchangedKeeps DEF IInv, HeldOK, RemoveProvider, Existing
    <2>2. /\ p \in registered
          /\ todo' = [loop |-> "remove", by |-> {p}, sinks |-> {s \in found : Owner[s] = p}]
          /\ UNCHANGED <<found, registered, discover, scanning>>
      BY <1>1 DEF RemoveProvider, Existing
    <2>3. LoopTypeOK'
      BY <2>2 DEF IInv, HeldOK, LoopTypeOK
    <2>4. LoopOK'
      BY <2>1, <2>2 DEF IInv, HeldOK, LoopOK, Visible
    <2> QED BY <2>1, <2>2, <2>3, <2>4 DEF IInv, HeldOK, Visible
  <1>2. CASE RemoveExisting(p)
    <2>1. /\ todo.loop = "remove" /\ todo.by = {p}
          /\ UNCHANGED <<found, registered, discover, scanning>>
      BY <1>2 DEF RemoveExisting
    <2>2. PICK s \in todo.sinks : SinkRemovedCb(s) /\ todo' = [todo EXCEPT !.sinks = @ \ {s}]
      BY <1>2 DEF RemoveExisting
    <2>3. s \in Sinks
      BY <2>1 DEF IInv, HeldOK, LoopTypeOK
    <2>4. ListOK' /\ \A m \in Metas : children'[m] = children[m] \ {s}
      BY <2>2, <2>3, SinkRemovedKeeps DEF IInv, HeldOK
    <2>5. /\ todo' \in [loop : {"none", "add", "remove"}, by : SUBSET Providers, sinks : SUBSET Sinks]
          /\ todo'.loop = "remove" /\ todo'.by = {p} /\ todo'.sinks = todo.sinks \ {s}
      BY <2>1, <2>2 DEF IInv, HeldOK, LoopTypeOK
    <2>6. LoopTypeOK'
      BY <2>1, <2>5 DEF IInv, HeldOK, LoopTypeOK
    <2>7. LoopOK'
      BY <2>1, <2>4, <2>5 DEF IInv, HeldOK, LoopOK
    <2> QED BY <2>1, <2>4, <2>6, <2>7 DEF IInv, HeldOK, Visible
  <1>3. CASE RemoveProviderReturns(p)
    <2>1. ListOK' /\ children' = children
      BY <1>3, UnchangedKeeps DEF IInv, HeldOK, RemoveProviderReturns
    <2>2. /\ todo = [loop |-> "remove", by |-> {p}, sinks |-> {}]
          /\ registered' = registered \ {p}
          /\ todo' = Idle /\ UNCHANGED <<found, discover, scanning>>
      BY <1>3 DEF RemoveProviderReturns
    <2>3. LoopTypeOK' /\ LoopOK'
      BY <2>2 DEF IInv, HeldOK, LoopTypeOK, LoopOK, Idle
    <2>4. \A m \in Metas : \A s \in children[m] : Owner[s] # p
      BY <2>2 DEF IInv, HeldOK, LoopOK
    <2> QED BY <2>1, <2>2, <2>3, <2>4 DEF IInv, HeldOK, Visible
  <1> QED BY <1>1, <1>2, <1>3

\* Switching discovery keeps the invariant.
LEMMA SetDiscoverKeeps ==
    ASSUME IInv, NEW b \in BOOLEAN, SetDiscover(b)
    PROVE  IInv'
  <1>1. ListOK' /\ children' = children
    BY UnchangedKeeps DEF IInv, HeldOK, SetDiscover
  <1>2. LoopTypeOK'
    BY DEF IInv, HeldOK, SetDiscover, LoopTypeOK
  <1> QED BY <1>1, <1>2 DEF IInv, HeldOK, SetDiscover, LoopOK, Visible

\* Every step keeps the invariant.
LEMMA NextInv == IInv /\ [Next]_vars => IInv'
  <1> SUFFICES ASSUME IInv, [Next]_vars PROVE IInv'
    OBVIOUS
  <1>1. CASE UNCHANGED vars
    BY <1>1 DEF vars, IInv, LoopTypeOK, ListTypeOK, ListOK, LoopOK, HeldOK, Disjoint, Separated, Usable, Visible
  <1>2. CASE \E s \in Sinks : SinkFound(s) \/ SinkLost(s)
    BY <1>2, SinkFoundKeeps, SinkLostKeeps
  <1>3. CASE \E p \in Providers : AddProvider(p) \/ AddExisting(p) \/ AddProviderReturns(p)
    BY <1>3, AddProviderKeeps
  <1>4. CASE \E p \in Providers :
               RemoveProvider(p) \/ RemoveExisting(p) \/ RemoveProviderReturns(p)
    BY <1>4, RemoveProviderKeeps
  <1>5. CASE \E b \in BOOLEAN : SetDiscover(b)
    BY <1>5, SetDiscoverKeeps
  <1> QED BY <1>1, <1>2, <1>3, <1>4, <1>5 DEF Next

\* The invariant holds of every behaviour.
LEMMA Invariance == Spec => []IInv
  BY InitInv, NextInv, PTL DEF Spec

\* The variables keep their types, in runs of any length over any population of
\* sinks and providers.
THEOREM TypeCorrect == Spec => []TypeOK
  <1>1. IInv => TypeOK
    BY DEF IInv, ListOK, ListTypeOK, LoopTypeOK, TypeOK
  <1> QED BY <1>1, Invariance, PTL

\* De-duplication: listed meta sinks never hold sinks that share an address,
\* and no sink has two holders.  No assumption is made on the addresses: merges
\* and their losses are covered.
THEOREM AlwaysDeDuplicated == Spec => []DeDuplicated
  <1>1. IInv => DeDuplicated
    BY DEF IInv, ListOK, DeDuplicated
  <1> QED BY <1>1, Invariance, PTL

\* A listed meta sink always has a current sink, and it is the best it holds.
THEOREM AlwaysUsable == Spec => []Usable
  <1>1. IInv => Usable
    BY DEF IInv, ListOK
  <1> QED BY <1>1, Invariance, PTL

\* Nothing is offered that its provider no longer has.
THEOREM OnlyVisible == Spec => []NoStrangers
  <1>1. IInv => NoStrangers
    BY DEF IInv, HeldOK, ListOK, ListTypeOK, NoStrangers
  <1> QED BY <1>1, Invariance, PTL

\* Where no sink bridges two others, a sink matches one listed meta sink at most.
LEMMA OneMatch ==
    ASSUME Unambiguous, IInv, NEW s \in Sinks, NEW m \in listed, NEW n \in listed,
           MatchesSink(m, s), MatchesSink(n, s)
    PROVE  m = n
  <1>1. PICK t \in children[m] : SameDevice(s, t)
    BY DEF MatchesSink
  <1>2. PICK u \in children[n] : SameDevice(s, u)
    BY DEF MatchesSink
  <1>3. t \in Sinks /\ u \in Sinks
    BY DEF IInv, ListOK, ListTypeOK
  <1>4. SameDevice(t, s)
    BY <1>1, <1>3, SameDeviceSym
  <1>5. SameDevice(t, u)
    BY <1>2, <1>3, <1>4 DEF Unambiguous
  <1> QED BY <1>1, <1>2, <1>5 DEF IInv, ListOK, Separated

\* There, no arrival can match two meta sinks: the situation the warning of
\* provider_sink_added_cb calls impossible.
THEOREM NoBridges == Unambiguous => (Spec => []NeverAmbiguous)
  <1> SUFFICES ASSUME Unambiguous PROVE Spec => []NeverAmbiguous
    OBVIOUS
  <1>1. IInv => NeverAmbiguous
    BY OneMatch DEF NeverAmbiguous
  <1> QED BY <1>1, Invariance, PTL

\* Every change of the list or of a current sink is exported in the same step.
THEOREM ExportsFresh == Spec => []DisplaysFresh
  <1>1. Init => DisplaysFresh
    BY DEF Init, DisplaysFresh, Snapshot
  <1>2. ASSUME DisplaysFresh, NEW s, SinkAddedCb(s)
        PROVE  DisplaysFresh'
    BY <1>2 DEF SinkAddedCb, NewMeta, Unmatched, Export, JoinMeta, Merge, AddCrash, DisplaysFresh, Snapshot
  <1>3. ASSUME DisplaysFresh, NEW s, SinkRemovedCb(s)
        PROVE  DisplaysFresh'
    BY <1>3 DEF SinkRemovedCb, RemoveUnknown, RemoveChild, MoreLeaks, RowsWithout, Export, DisplaysFresh, Snapshot
  <1>4. ASSUME DisplaysFresh, ListUnchanged
        PROVE  DisplaysFresh'
    BY <1>4 DEF ListUnchanged, DisplaysFresh, Snapshot
  <1>5. DisplaysFresh /\ [Next]_vars => DisplaysFresh'
    <2> SUFFICES ASSUME DisplaysFresh, [Next]_vars PROVE DisplaysFresh'
      OBVIOUS
    <2>1. CASE UNCHANGED vars
      BY <2>1 DEF vars, DisplaysFresh, Snapshot
    <2>2. ASSUME NEW s \in Sinks, SinkFound(s) \/ SinkLost(s)
          PROVE  DisplaysFresh'
      BY <1>2, <1>3, <1>4, <2>2 DEF SinkFound, SinkLost
    <2>3. ASSUME NEW p \in Providers, AddExisting(p) \/ RemoveExisting(p)
          PROVE  DisplaysFresh'
      BY <1>2, <1>3, <2>3 DEF AddExisting, RemoveExisting
    <2>4. ASSUME NEW p \in Providers, \/ AddProvider(p) \/ AddProviderReturns(p)
                                      \/ RemoveProvider(p) \/ RemoveProviderReturns(p)
          PROVE  DisplaysFresh'
      BY <1>4, <2>4 DEF AddProvider, Existing, Synced, AddProviderReturns, RemoveProvider, RemoveProviderReturns
    <2>5. ASSUME NEW b \in BOOLEAN, SetDiscover(b)
          PROVE  DisplaysFresh'
      BY <1>4, <2>5 DEF SetDiscover
    <2> QED BY <2>1, <2>2, <2>3, <2>4, <2>5 DEF Next
  <1> QED BY <1>1, <1>5, PTL DEF Spec

\* Without bridges a callback changes the rows as it changes the list.
LEMMA RowsFollow ==
    ASSUME Unambiguous, IInv, rows = listed, NEW s \in Sinks,
           SinkAddedCb(s) \/ SinkRemovedCb(s)
    PROVE  rows' = listed'
  <1>1. CASE NewMeta(s)
    BY <1>1 DEF NewMeta
  <1>2. CASE JoinMeta(s)
    <2> DEFINE matching == {m \in listed : MatchesSink(m, s)}
    <2>1. PICK kept \in matching :
             /\ listed' = listed \ (matching \ {kept})
             /\ rows' = rows \ {m \in matching \ {kept} : Announced(m)}
      BY <1>2 DEF JoinMeta
    <2>2. matching \ {kept} = {}
      BY OneMatch
    <2> QED BY <2>1, <2>2
  <1>3. CASE AddCrash(s) \/ RemoveUnknown(s)
    BY <1>3 DEF AddCrash, RemoveUnknown
  <1>4. CASE RemoveChild(s)
    BY <1>4 DEF RemoveChild, RowsWithout
  <1> QED BY <1>1, <1>2, <1>3, <1>4 DEF SinkAddedCb, SinkRemovedCb

\* Without bridges both listeners show what the meta provider lists after every step,
\* in the middle of the loops of add_provider and remove_provider, too.
THEOREM ListenersInStep == Unambiguous => (Spec => []ListenersFollow)
  <1> SUFFICES ASSUME Unambiguous PROVE Spec => []ListenersFollow
    OBVIOUS
  <1> DEFINE Rows == rows = listed
  <1>1. Init => Rows
    BY DEF Init
  <1>2. IInv /\ Rows /\ [Next]_vars => Rows'
    <2> SUFFICES ASSUME IInv, Rows, [Next]_vars PROVE Rows'
      OBVIOUS
    <2>1. CASE UNCHANGED vars
      BY <2>1 DEF vars
    <2>2. ASSUME NEW s \in Sinks, SinkFound(s) \/ SinkLost(s) PROVE Rows'
      BY <2>2, RowsFollow DEF SinkFound, SinkLost, ListUnchanged
    <2>3. ASSUME NEW p \in Providers, AddExisting(p) \/ RemoveExisting(p) PROVE Rows'
      <3>1. PICK s \in todo.sinks : SinkAddedCb(s) \/ SinkRemovedCb(s)
        BY <2>3 DEF AddExisting, RemoveExisting
      <3>2. s \in Sinks
        BY <3>1 DEF IInv, LoopTypeOK
      <3> QED BY <3>1, <3>2, RowsFollow
    <2>4. ASSUME NEW p \in Providers,
                 \/ AddProvider(p) \/ AddProviderReturns(p)
                 \/ RemoveProvider(p) \/ RemoveProviderReturns(p)
          PROVE  Rows'
      BY <2>4 DEF AddProvider, AddProviderReturns, RemoveProvider, RemoveProviderReturns, ListUnchanged
    <2>5. ASSUME NEW b \in BOOLEAN, SetDiscover(b) PROVE Rows'
      BY <2>5 DEF SetDiscover, ListUnchanged
    <2> QED BY <2>1, <2>2, <2>3, <2>4, <2>5 DEF Next
  <1>3. Rows /\ DisplaysFresh => ListenersFollow
    BY DEF ListenersFollow
  <1> HIDE DEF Rows
  <1> QED BY <1>1, <1>2, <1>3, Invariance, ExportsFresh, PTL DEF Spec

\* Registered providers scan exactly when the meta provider does.
THEOREM DiscoverFollows == Spec => []DiscoverSynced
  <1>1. Init => DiscoverSynced
    BY DEF Init, DiscoverSynced
  <1>2. IInv /\ DiscoverSynced /\ [Next]_vars => DiscoverSynced'
    <2> SUFFICES ASSUME IInv, DiscoverSynced, [Next]_vars PROVE DiscoverSynced'
      OBVIOUS
    <2> USE DEF IInv, LoopTypeOK, DiscoverSynced
    <2>1. CASE UNCHANGED vars
      BY <2>1 DEF vars
    <2>2. ASSUME NEW s \in Sinks, SinkFound(s) \/ SinkLost(s)
          PROVE  DiscoverSynced'
      BY <2>2 DEF SinkFound, SinkLost
    <2>3. ASSUME NEW p \in Providers, AddProvider(p)
          PROVE  DiscoverSynced'
      BY <2>3 DEF AddProvider, Existing, Synced
    <2>4. ASSUME NEW p \in Providers,
                 \/ AddExisting(p) \/ AddProviderReturns(p)
                 \/ RemoveProvider(p) \/ RemoveExisting(p) \/ RemoveProviderReturns(p)
          PROVE  DiscoverSynced'
      BY <2>4 DEF AddExisting, AddProviderReturns, RemoveProvider, Existing, RemoveExisting, RemoveProviderReturns
    <2>5. ASSUME NEW b \in BOOLEAN, SetDiscover(b)
          PROVE  DiscoverSynced'
      BY <2>5 DEF SetDiscover
    <2> QED BY <2>1, <2>2, <2>3, <2>4, <2>5 DEF Next
  <1> QED BY <1>1, <1>2, Invariance, PTL DEF Spec
-----------------------------------------------------------------------------
(* Without bridges: what a callback does to the groups of sinks *)

\* Sink s joins meta sink k, which is new or holds sinks of the same device; no
\* other meta sink matches it, and none is touched.
Joins(s, k) ==
    /\ listed' = listed \union {k}
    /\ k \notin listed => children[k] = {}
    /\ \A t \in children[k] : \E u \in children[k] : SameDevice(s, u)
    /\ children'[k] = children[k] \union {s}
    /\ \A m \in Metas \ {k} : children'[m] = children[m] /\ current'[m] = current[m]
    /\ UNCHANGED aborted

\* Sink s leaves meta sink k, which goes with its last sink.
Leaves(s, k) ==
    /\ k \in listed /\ s \in children[k]
    /\ listed' = IF children'[k] = {} THEN listed \ {k} ELSE listed
    /\ children'[k] = children[k] \ {s}
    /\ \A m \in Metas \ {k} : children'[m] = children[m] /\ current'[m] = current[m]
    /\ UNCHANGED aborted

\* A sink that arrives joins one meta sink: no merge, and no failed assertion.
LEMMA ArrivalJoins ==
    ASSUME Unambiguous, IInv, NEW s \in Sinks, \A m \in Metas : s \notin children[m], SinkAddedCb(s)
    PROVE  \E k \in Metas : Joins(s, k)
  <1> DEFINE matching == {m \in listed : MatchesSink(m, s)}
  <1>0. listed \subseteq Metas /\ children \in [Metas -> SUBSET Sinks]
        /\ current \in [Metas -> Sinks \union {NoSink}]
    BY DEF IInv, ListOK, ListTypeOK
  <1>1. CASE NewMeta(s)
    <2>1. /\ nextMeta \in Metas /\ listed' = listed \union {nextMeta}
          /\ children' = [children EXCEPT ![nextMeta] = {s}]
          /\ current' = [current EXCEPT ![nextMeta] = s]
          /\ UNCHANGED aborted
      BY <1>1 DEF NewMeta
    <2>2. nextMeta \notin listed
      BY <2>1 DEF IInv, ListOK, ListTypeOK, Metas
    <2>3. children[nextMeta] = {}
      BY <2>1, <2>2 DEF IInv, ListOK
    <2>4. children'[nextMeta] = {s}
          /\ \A m \in Metas \ {nextMeta} : children'[m] = children[m] /\ current'[m] = current[m]
      BY <1>0, <2>1
    <2> QED BY <2>1, <2>2, <2>3, <2>4 DEF Joins
  <1>2. CASE JoinMeta(s)
    <2>1. PICK kept \in matching :
            /\ listed' = listed \ (matching \ {kept})
            /\ children' = Merge(kept, matching \ {kept},
                                 UNION {children[m] : m \in {n \in matching \ {kept} : Survives(n)}}, s)
            /\ \E best : current' = [m \in Metas |->
                  IF m = kept THEN best ELSE IF m \in matching \ {kept} THEN NoSink ELSE current[m]]
            /\ UNCHANGED aborted
      BY <1>2 DEF JoinMeta
    <2>2. matching = {kept}
      BY <2>1, OneMatch
    <2>3. kept \in listed /\ kept \in Metas /\ MatchesSink(kept, s)
      BY <1>0, <2>1
    <2>4. children' = [m \in Metas |-> IF m = kept THEN children[kept] \union {s} ELSE children[m]]
      BY <2>1, <2>2 DEF Merge
    <2>5. \E best : current' = [m \in Metas |-> IF m = kept THEN best ELSE current[m]]
      BY <2>1, <2>2
    <2>6. children'[kept] = children[kept] \union {s}
          /\ \A m \in Metas \ {kept} : children'[m] = children[m] /\ current'[m] = current[m]
      BY <2>3, <2>4, <2>5
    <2>7. listed' = listed \union {kept}
      BY <2>1, <2>2, <2>3
    <2>8. \E u \in children[kept] : SameDevice(s, u)
      BY <2>3 DEF MatchesSink
    <2> QED BY <2>1, <2>3, <2>6, <2>7, <2>8 DEF Joins
  <1>3. CASE AddCrash(s)
    <2>1. PICK kept \in matching : s \in children[kept] \/ \E m \in matching \ {kept} : ~ Survives(m)
      BY <1>3 DEF AddCrash
    <2>2. s \notin children[kept]
      BY <1>0, <2>1
    <2>3. matching \ {kept} = {}
      BY <2>1, OneMatch
    <2> QED BY <2>1, <2>2, <2>3
  <1> QED BY <1>1, <1>2, <1>3 DEF SinkAddedCb

\* A sink that goes leaves the one meta sink that holds it.
LEMMA DepartureLeaves ==
    ASSUME IInv, NEW s \in Sinks, RemoveChild(s)
    PROVE  \E k \in Metas : Leaves(s, k)
  <1>1. PICK m \in listed :
          /\ IsFirst(m, {n \in listed : s \in children[n]})
          /\ children' = [children EXCEPT ![m] = @ \ {s}]
          /\ \E best \in Update(current[m], children'[m]) : current' = [current EXCEPT ![m] = best]
          /\ IF children'[m] = {} THEN listed' = listed \ {m} ELSE UNCHANGED listed
          /\ UNCHANGED aborted
    BY DEF RemoveChild
  <1>2. m \in Metas /\ s \in children[m]
    BY <1>1 DEF IInv, ListOK, ListTypeOK, IsFirst
  <1>3. children'[m] = children[m] \ {s}
        /\ \A n \in Metas \ {m} : children'[n] = children[n] /\ current'[n] = current[n]
    BY <1>1, <1>2 DEF IInv, ListOK, ListTypeOK
  <1> QED BY <1>1, <1>2, <1>3 DEF Leaves

\* What a step does to the groups: a sink joins one, leaves one, or nothing happens.
\* What joins was found and registered, and waited for its turn if a loop is running.
LEMMA GroupSteps ==
    ASSUME Unambiguous, IInv, [Next]_vars
    PROVE  \/ UNCHANGED <<listed, children, current, aborted>>
           \/ \E s \in Sinks, k \in Metas : (\A m \in Metas : s \notin children[m]) /\ Joins(s, k)
           \/ \E s \in Sinks, k \in Metas : Leaves(s, k)
  <1>1. CASE UNCHANGED vars
    BY <1>1 DEF vars
  <1>2. ASSUME NEW s \in Sinks, SinkFound(s)
        PROVE  \/ UNCHANGED <<listed, children, current, aborted>>
               \/ \E k \in Metas : (\A m \in Metas : s \notin children[m]) /\ Joins(s, k)
    <2>1. \A m \in Metas : s \notin children[m]
      BY <1>2 DEF SinkFound, IInv, HeldOK, Visible
    <2> QED BY <1>2, <2>1, ArrivalJoins DEF SinkFound, ListUnchanged
  <1>3. ASSUME NEW s \in Sinks, SinkRemovedCb(s)
        PROVE  UNCHANGED <<listed, children, current, aborted>> \/ \E k \in Metas : Leaves(s, k)
    BY <1>3, DepartureLeaves DEF SinkRemovedCb, RemoveUnknown
  <1>4. ASSUME NEW s \in Sinks, SinkLost(s)
        PROVE  UNCHANGED <<listed, children, current, aborted>> \/ \E k \in Metas : Leaves(s, k)
    BY <1>3, <1>4 DEF SinkLost, ListUnchanged
  <1>5. ASSUME NEW p \in Providers, AddExisting(p)
        PROVE  \E s \in Sinks, k \in Metas : (\A m \in Metas : s \notin children[m]) /\ Joins(s, k)
    <2>1. PICK s \in todo.sinks : SinkAddedCb(s) /\ todo.loop = "add"
      BY <1>5 DEF AddExisting
    <2>2. s \in Sinks /\ \A m \in Metas : s \notin children[m]
      BY <2>1 DEF IInv, LoopTypeOK, LoopOK
    <2> QED BY <2>1, <2>2, ArrivalJoins
  <1>6. ASSUME NEW p \in Providers, RemoveExisting(p)
        PROVE  \/ UNCHANGED <<listed, children, current, aborted>>
               \/ \E s \in Sinks, k \in Metas : Leaves(s, k)
    <2>1. PICK s \in todo.sinks : SinkRemovedCb(s)
      BY <1>6 DEF RemoveExisting
    <2>2. s \in Sinks
      BY <2>1 DEF IInv, LoopTypeOK
    <2> QED BY <1>3, <2>1, <2>2
  <1>7. ASSUME ListUnchanged PROVE UNCHANGED <<listed, children, current, aborted>>
    BY <1>7 DEF ListUnchanged
  <1>8. ASSUME NEW p \in Providers,
               AddProvider(p) \/ AddProviderReturns(p) \/ RemoveProvider(p) \/ RemoveProviderReturns(p)
        PROVE  ListUnchanged
    BY <1>8 DEF AddProvider, AddProviderReturns, RemoveProvider, RemoveProviderReturns
  <1>9. ASSUME NEW b \in BOOLEAN, SetDiscover(b) PROVE ListUnchanged
    BY <1>9 DEF SetDiscover
  <1> QED BY <1>1, <1>2, <1>4, <1>5, <1>6, <1>7, <1>8, <1>9 DEF Next

\* The sinks of one meta sink are of one device.
Cohesive ==
    \A m \in Metas : \A s, t \in children[m] : s = t \/ SameDevice(s, t)

LEMMA CohesiveStep == Unambiguous /\ IInv /\ Cohesive /\ [Next]_vars => Cohesive'
  <1> SUFFICES ASSUME Unambiguous, IInv, Cohesive, [Next]_vars PROVE Cohesive'
    OBVIOUS
  <1>0. \A m \in Metas : children[m] \subseteq Sinks
    BY DEF IInv, ListOK, ListTypeOK
  <1>1. CASE UNCHANGED <<listed, children, current, aborted>>
    BY <1>1 DEF Cohesive, SameDevice
  <1>2. ASSUME NEW s \in Sinks, NEW k \in Metas, Joins(s, k) PROVE Cohesive'
    <2>1. \A t \in children[k] : SameDevice(s, t) /\ SameDevice(t, s)
      <3> SUFFICES ASSUME NEW t \in children[k] PROVE SameDevice(s, t) /\ SameDevice(t, s)
        OBVIOUS
      <3>1. PICK u \in children[k] : SameDevice(s, u)
        BY <1>2 DEF Joins
      <3>2. t \in Sinks /\ u \in Sinks
        BY <1>0
      <3>3. u = t \/ SameDevice(u, t)
        BY DEF Cohesive
      <3>4. SameDevice(s, t)
        BY <3>1, <3>2, <3>3 DEF Unambiguous
      <3> QED BY <3>2, <3>4, SameDeviceSym
    <2>2. SUFFICES ASSUME NEW m \in Metas, NEW t \in children'[m], NEW u \in children'[m]
                   PROVE  t = u \/ SameDevice(t, u)
      BY DEF Cohesive, SameDevice
    <2>3. CASE m = k
      BY <1>2, <2>1, <2>2, <2>3 DEF Joins, Cohesive
    <2>4. CASE m # k
      BY <1>2, <2>2, <2>4 DEF Joins, Cohesive
    <2> QED BY <2>3, <2>4
  <1>3. ASSUME NEW s \in Sinks, NEW k \in Metas, Leaves(s, k) PROVE Cohesive'
    <2>1. \A m \in Metas : children'[m] \subseteq children[m]
      BY <1>3 DEF Leaves
    <2> QED BY <2>1 DEF Cohesive, SameDevice
  <1> QED BY <1>1, <1>2, <1>3, GroupSteps
-----------------------------------------------------------------------------
(* Nothing is lost, and devices keep their meta sinks *)

\* Every visible sink is held, or the running loop still has to add it, or its
\* provider is about to go; and the process lives.
Covered ==
    /\ ~ aborted
    /\ \A s \in Visible :
          \/ \E m \in listed : s \in children[m]
          \/ todo.loop = "add" /\ s \in todo.sinks
          \/ todo.loop = "remove" /\ Owner[s] \in todo.by

\* A callback loses no sink but the one it is about.
LEMMA AddedCovers ==
    ASSUME Unambiguous, IInv, NEW s \in Sinks, \A m \in Metas : s \notin children[m], SinkAddedCb(s)
    PROVE  /\ \E m \in listed' : s \in children'[m]
           /\ \A t \in Sinks : (\E m \in listed : t \in children[m]) => \E m \in listed' : t \in children'[m]
           /\ UNCHANGED aborted
  <1>1. PICK k \in Metas : Joins(s, k)
    BY ArrivalJoins
  <1>2. listed \subseteq Metas
    BY DEF IInv, ListOK, ListTypeOK
  <1> QED BY <1>1, <1>2 DEF Joins

LEMMA RemovedCovers ==
    ASSUME IInv, NEW s \in Sinks, SinkRemovedCb(s)
    PROVE  /\ \A t \in Sinks \ {s} : (\E m \in listed : t \in children[m]) => \E m \in listed' : t \in children'[m]
           /\ UNCHANGED aborted
  <1>1. CASE RemoveUnknown(s)
    BY <1>1 DEF RemoveUnknown
  <1>2. ASSUME NEW k \in Metas, Leaves(s, k)
        PROVE  /\ \A t \in Sinks \ {s} : (\E m \in listed : t \in children[m]) => \E m \in listed' : t \in children'[m]
               /\ UNCHANGED aborted
    <2>1. listed \subseteq Metas
      BY DEF IInv, ListOK, ListTypeOK
    <2> QED BY <1>2, <2>1 DEF Leaves
  <1> QED BY <1>1, <1>2, DepartureLeaves DEF SinkRemovedCb

LEMMA CoveredStep == Unambiguous /\ IInv /\ Covered /\ [Next]_vars => Covered'
  <1> SUFFICES ASSUME Unambiguous, IInv, Covered, [Next]_vars PROVE Covered'
    OBVIOUS
  <1>0. found \subseteq Sinks /\ listed \subseteq Metas
    BY DEF IInv, LoopTypeOK, ListOK, ListTypeOK
  <1>1. CASE UNCHANGED vars
    BY <1>1 DEF vars, Covered, Visible
  <1>2. ASSUME NEW s \in Sinks, SinkFound(s) PROVE Covered'
    <2>1. /\ todo = Idle /\ todo' = todo /\ UNCHANGED registered
          /\ found' = found \union {s}
      BY <1>2 DEF SinkFound, MainLoop
    <2>2. \A m \in Metas : s \notin children[m]
      BY <1>2 DEF SinkFound, IInv, HeldOK, Visible
    <2>3. CASE Owner[s] \in registered
      <3>1. SinkAddedCb(s)
        BY <1>2, <2>3 DEF SinkFound
      <3> QED BY <1>0, <2>1, <2>2, <3>1, AddedCovers DEF Covered, Visible, Idle
    <2>4. CASE Owner[s] \notin registered
      <3>1. ListUnchanged
        BY <1>2, <2>4 DEF SinkFound
      <3> QED BY <2>1, <2>4, <3>1 DEF ListUnchanged, Covered, Visible
    <2> QED BY <2>3, <2>4
  <1>3. ASSUME NEW s \in Sinks, SinkLost(s) PROVE Covered'
    <2>1. /\ todo = Idle /\ todo' = todo /\ UNCHANGED registered
          /\ found' = found \ {s}
          /\ SinkRemovedCb(s) \/ ListUnchanged
      BY <1>3 DEF SinkLost, MainLoop
    <2>2. CASE SinkRemovedCb(s)
      BY <1>0, <2>1, <2>2, RemovedCovers DEF Covered, Visible, Idle
    <2>3. CASE ListUnchanged
      BY <2>1, <2>3 DEF ListUnchanged, Covered, Visible
    <2> QED BY <2>1, <2>2, <2>3
  <1>4. ASSUME NEW p \in Providers, AddExisting(p) PROVE Covered'
    <2>1. PICK s \in todo.sinks : SinkAddedCb(s) /\ todo' = [todo EXCEPT !.sinks = @ \ {s}]
      BY <1>4 DEF AddExisting
    <2>2. s \in Sinks /\ \A m \in Metas : s \notin children[m]
      BY <1>4, <2>1 DEF AddExisting, IInv, LoopTypeOK, LoopOK
    <2>3. todo'.loop = "add" /\ todo.loop = "add" /\ todo'.sinks = todo.sinks \ {s}
      BY <1>4, <2>1 DEF AddExisting, IInv, LoopTypeOK
    <2>4. UNCHANGED <<found, registered>>
      BY <1>4 DEF AddExisting
    <2> QED BY <1>0, <2>1, <2>2, <2>3, <2>4, AddedCovers DEF Covered, Visible
  <1>5. ASSUME NEW p \in Providers, RemoveExisting(p) PROVE Covered'
    <2>1. PICK s \in todo.sinks : SinkRemovedCb(s) /\ todo' = [todo EXCEPT !.sinks = @ \ {s}]
      BY <1>5 DEF RemoveExisting
    <2>2. s \in Sinks /\ Owner[s] \in todo.by
      BY <1>5, <2>1 DEF RemoveExisting, IInv, LoopTypeOK, LoopOK
    <2>3. todo'.loop = "remove" /\ todo.loop = "remove" /\ todo'.by = todo.by
      BY <1>5, <2>1 DEF RemoveExisting, IInv, LoopTypeOK
    <2>4. UNCHANGED <<found, registered>>
      BY <1>5 DEF RemoveExisting
    <2> QED BY <1>0, <2>1, <2>2, <2>3, <2>4, RemovedCovers DEF Covered, Visible
  <1>6. ASSUME NEW p \in Providers, AddProvider(p) PROVE Covered'
    <2>1. /\ todo = Idle /\ registered' = registered \union {p} /\ UNCHANGED found /\ ListUnchanged
          /\ todo' = [loop |-> "add", by |-> {p}, sinks |-> {s \in found : Owner[s] = p}]
      BY <1>6 DEF AddProvider, MainLoop, Existing
    <2> QED BY <2>1 DEF Covered, Visible, Idle, ListUnchanged
  <1>7. ASSUME NEW p \in Providers, AddProviderReturns(p) PROVE Covered'
    <2>1. /\ todo = [loop |-> "add", by |-> {p}, sinks |-> {}] /\ UNCHANGED <<found, registered>>
          /\ ListUnchanged
      BY <1>7 DEF AddProviderReturns
    <2> QED BY <2>1 DEF Covered, Visible, ListUnchanged
  <1>8. ASSUME NEW p \in Providers, RemoveProvider(p) PROVE Covered'
    <2>1. todo = Idle /\ UNCHANGED <<found, registered>> /\ ListUnchanged
      BY <1>8 DEF RemoveProvider, MainLoop
    <2> QED BY <2>1 DEF Covered, Visible, Idle, ListUnchanged
  <1>9. ASSUME NEW p \in Providers, RemoveProviderReturns(p) PROVE Covered'
    <2>1. /\ todo = [loop |-> "remove", by |-> {p}, sinks |-> {}] /\ UNCHANGED found
          /\ registered' = registered \ {p} /\ ListUnchanged
      BY <1>9 DEF RemoveProviderReturns
    <2> QED BY <2>1 DEF Covered, Visible, ListUnchanged
  <1>10. ASSUME NEW b \in BOOLEAN, SetDiscover(b) PROVE Covered'
    BY <1>10 DEF SetDiscover, ListUnchanged, Covered, Visible
  <1> QED BY <1>1, <1>2, <1>3, <1>4, <1>5, <1>6, <1>7, <1>8, <1>9, <1>10 DEF Next

LEMMA CoveredHolds == Unambiguous => (Spec => []Covered)
  <1> SUFFICES ASSUME Unambiguous PROVE Spec => []Covered
    OBVIOUS
  <1>1. Init => Covered
    BY DEF Init, Covered, Visible
  <1> QED BY <1>1, Invariance, CoveredStep, PTL DEF Spec

\* Without bridges, every sink of a registered provider is offered when the main loop
\* is free, whatever came, went, was plugged in or out before.
THEOREM AlwaysComplete == Unambiguous => (Spec => []Complete)
  <1> SUFFICES ASSUME Unambiguous PROVE Spec => []Complete
    OBVIOUS
  <1>1. Covered => Complete
    BY DEF Covered, Complete, Held, MainLoop, Idle
  <1> QED BY <1>1, CoveredHolds, PTL

\* There, no assertion fails and no freed meta sink is touched.
THEOREM NeverAborts == Unambiguous => (Spec => [](~ aborted))
  <1> SUFFICES ASSUME Unambiguous PROVE Spec => [](~ aborted)
    OBVIOUS
  <1>1. Covered => ~ aborted
    BY DEF Covered
  <1> QED BY <1>1, CoveredHolds, PTL

\* Without bridges a meta sink lives as long as its device: the uuid of its stream unit
\* does not change while one of its sinks is there.
THEOREM IdentityKept == Unambiguous => (Spec => IdentityStable)
  <1> SUFFICES ASSUME Unambiguous PROVE Spec => IdentityStable
    OBVIOUS
  <1> DEFINE Stable == \A m \in listed : children[m] \intersect UNION {children'[n] : n \in listed'} # {}
                          => m \in listed'
  <1>1. IInv /\ [Next]_vars => [Stable]_vars
    <2> SUFFICES ASSUME IInv, [Next]_vars PROVE Stable
      OBVIOUS
    <2>1. CASE UNCHANGED <<listed, children, current, aborted>>
      BY <2>1
    <2>2. ASSUME NEW s \in Sinks, NEW k \in Metas, Joins(s, k) PROVE Stable
      BY <2>2 DEF Joins
    <2>3. ASSUME NEW s \in Sinks, NEW k \in Metas, Leaves(s, k) PROVE Stable
      <3> SUFFICES ASSUME NEW m \in listed, NEW n \in listed', NEW t \in children[m], t \in children'[n]
                   PROVE  m \in listed'
        OBVIOUS
      <3>1. m \in Metas /\ n \in Metas
        BY <2>3 DEF Leaves, IInv, ListOK, ListTypeOK
      <3>2. children'[n] \subseteq children[n]
        BY <2>3, <3>1 DEF Leaves
      <3>3. m = n
        BY <3>1, <3>2 DEF IInv, ListOK, Disjoint
      <3> QED BY <3>3
    <2> QED BY <2>1, <2>2, <2>3, GroupSteps
  <1> HIDE DEF Stable
  <1>2. Spec => [][Stable]_vars
    BY <1>1, Invariance, PTL DEF Spec
  <1> QED BY <1>2 DEF Stable, IdentityStable
-----------------------------------------------------------------------------
(* The meta provider implements the directory of devices *)

\* The groups of the directory and what is on offer.
Devs == {children[m] : m \in listed}
Offered == {current[m] : m \in listed}

\* The groups are the devices of the sinks that are held.
LEMMA Grouped == IInv /\ Cohesive => Devs = Directory!Devices(Held)
  <1> SUFFICES ASSUME IInv, Cohesive PROVE Devs = Directory!Devices(Held)
    OBVIOUS
  <1>0. /\ listed \subseteq Metas /\ \A m \in Metas : children[m] \subseteq Sinks
        /\ \A m \in listed : current[m] \in children[m]
    BY DEF IInv, ListOK, ListTypeOK, Usable, Preferred
  <1>1. ASSUME NEW m \in listed, NEW s \in children[m]
        PROVE  Directory!DeviceOf(s, Held) = children[m]
    <2>1. ASSUME NEW t \in Held, SameDevice(s, t) PROVE t \in children[m]
      <3>1. PICK n \in listed : t \in children[n]
        BY DEF Held
      <3> QED BY <2>1, <3>1 DEF IInv, ListOK, Separated
    <2>2. ASSUME NEW t \in children[m] PROVE t \in Held /\ (t = s \/ SameDevice(s, t))
      BY <1>0 DEF Held, Cohesive
    <2> QED BY <2>1, <2>2 DEF Directory!DeviceOf, SameDevice
  <1>2. ASSUME NEW m \in listed PROVE children[m] \in Directory!Devices(Held)
    <2>1. current[m] \in Held /\ Directory!DeviceOf(current[m], Held) = children[m]
      BY <1>0, <1>1 DEF Held
    <2> QED BY <2>1 DEF Directory!Devices
  <1>3. ASSUME NEW s \in Held PROVE Directory!DeviceOf(s, Held) \in Devs
    BY <1>1 DEF Held, Devs
  <1> QED BY <1>2, <1>3 DEF Directory!Devices, Devs

\* One best sink per device is on offer.
LEMMA OfferedBest == IInv => Directory!Offers
  <1> SUFFICES ASSUME IInv PROVE Directory!Offers
    OBVIOUS
  <1>0. listed \subseteq Metas
    BY DEF IInv, ListOK, ListTypeOK
  <1>1. ASSUME NEW m \in listed PROVE Directory!IsBest(current[m], children[m])
    BY DEF IInv, ListOK, Usable, Preferred, Directory!IsBest
  <1>2. ASSUME NEW m \in listed, NEW n \in listed, NEW d \in Devs, current[m] \in d, current[n] \in d
        PROVE  current[m] = current[n]
    <2>1. PICK o \in listed : d = children[o]
      BY DEF Devs
    <2>2. current[m] \in children[m] /\ current[n] \in children[n]
      BY <1>1 DEF Directory!IsBest
    <2>3. m = o /\ n = o
      BY <1>0, <1>2, <2>1, <2>2 DEF IInv, ListOK, Disjoint
    <2> QED BY <2>3
  <1> QED BY <1>1, <1>2 DEF Directory!Offers, Devs

\* A group that stays as it is keeps its sink on offer.
LEMMA OfferKept ==
    ASSUME IInv, IInv', NEW s \in Sinks, NEW k \in Metas,
           Leaves(s, k) \/ (Joins(s, k) /\ \A m \in Metas : s \notin children[m])
    PROVE  \A d \in Devs \intersect Devs' : d \intersect Offered = d \intersect Offered'
  <1>0. /\ listed \subseteq Metas /\ listed' \subseteq Metas
        /\ \A m \in listed : current[m] \in children[m]
        /\ \A m \in listed' : current'[m] \in children'[m]
    BY DEF IInv, ListOK, ListTypeOK, Usable, Preferred
  <1>1. ASSUME NEW m \in listed PROVE children[m] \intersect Offered = {current[m]}
    BY <1>0 DEF IInv, ListOK, Disjoint, Offered
  <1>2. ASSUME NEW m \in listed' PROVE children'[m] \intersect Offered' = {current'[m]}
    BY <1>0 DEF IInv, ListOK, Disjoint, Offered
  <1> SUFFICES ASSUME NEW m \in listed, NEW n \in listed', children[m] = children'[n]
               PROVE  current[m] = current'[n]
    BY <1>1, <1>2 DEF Devs
  <1>3. n # k
    <2>1. CASE Leaves(s, k) /\ n = k
      <3>1. m = k
        BY <1>0, <2>1 DEF Leaves, IInv, ListOK, Disjoint
      <3> QED BY <2>1, <3>1 DEF Leaves
    <2>2. CASE Joins(s, k) /\ (\A o \in Metas : s \notin children[o]) /\ n = k
      <3>1. s \in children[m]
        BY <2>2 DEF Joins
      <3> QED BY <1>0, <2>2, <3>1
    <2> QED BY <2>1, <2>2
  <1>4. children'[n] = children[n] /\ current'[n] = current[n]
    BY <1>0, <1>3 DEF Leaves, Joins
  <1>5. m = n
    BY <1>0, <1>4 DEF IInv, ListOK, Disjoint
  <1> QED BY <1>4, <1>5

\* What is held changes by the sink that joins or leaves.
LEMMA HeldChanges ==
    ASSUME IInv, NEW s \in Sinks, NEW k \in Metas
    PROVE  /\ Joins(s, k) => Held' = Held \union {s}
           /\ Leaves(s, k) => s \in Held /\ Held' = Held \ {s}
  <1>0. listed \subseteq Metas
    BY DEF IInv, ListOK, ListTypeOK
  <1>1. ASSUME Joins(s, k) PROVE Held' = Held \union {s}
    <2>1. ASSUME NEW t PROVE t \in Held' <=> t \in Held \union {s}
      BY <1>0, <1>1 DEF Joins, Held
    <2> QED BY <2>1
  <1>2. ASSUME Leaves(s, k) PROVE s \in Held /\ Held' = Held \ {s}
    <2>1. \A m \in Metas \ {k} : s \notin children[m]
      BY <1>2 DEF Leaves, IInv, ListOK, Disjoint
    <2>2. ASSUME NEW t PROVE t \in Held' <=> t \in Held \ {s}
      BY <1>0, <1>2, <2>1 DEF Leaves, Held
    <2> QED BY <1>2, <2>2 DEF Leaves, Held
  <1> QED BY <1>1, <1>2

LEMMA DirectoryStep ==
    ASSUME Unambiguous, IInv, Cohesive, IInv', Cohesive', [Next]_vars
    PROVE  [Directory!Next]_<<Held, Devs, Offered>>
  <1>1. CASE UNCHANGED <<listed, children, current, aborted>>
    BY <1>1 DEF Held, Devs, Offered
  <1>2. Devs' = Directory!Devices(Held')
    <2>1. (Devs = Directory!Devices(Held))'
      BY Grouped, PTL
    <2> QED BY <2>1 DEF Directory!Devices, Directory!DeviceOf
  <1>3. Directory!Offers'
    BY OfferedBest, PTL
  <1>4. ASSUME NEW s \in Sinks, NEW k \in Metas, Joins(s, k), \A m \in Metas : s \notin children[m]
        PROVE  Directory!Appear(s)
    <2>1. s \notin Held /\ Held' = Held \union {s}
      BY <1>4, HeldChanges DEF Held, IInv, ListOK, ListTypeOK
    <2>2. \A d \in Devs \intersect Devs' : d \intersect Offered = d \intersect Offered'
      BY <1>4, OfferKept
    <2> QED BY <1>2, <1>3, <2>1, <2>2 DEF Directory!Appear, Directory!Follow, Devs, Offered
  <1>5. ASSUME NEW s \in Sinks, NEW k \in Metas, Leaves(s, k)
        PROVE  Directory!Vanish(s)
    <2>1. s \in Held /\ Held' = Held \ {s}
      BY <1>5, HeldChanges
    <2>2. \A d \in Devs \intersect Devs' : d \intersect Offered = d \intersect Offered'
      BY <1>5, OfferKept
    <2> QED BY <1>2, <1>3, <2>1, <2>2 DEF Directory!Vanish, Directory!Follow, Devs, Offered
  <1> QED BY <1>1, <1>4, <1>5, GroupSteps DEF Directory!Next

\* Without bridges the meta provider implements DeviceDirectory: what it holds is
\* grouped by device after every step of a callback or a loop, one best sink of each is
\* on offer, and a device nothing happened to keeps it.
THEOREM DirectoryImplemented == Unambiguous => (Spec => ImplementsDirectory)
  <1> SUFFICES ASSUME Unambiguous PROVE Spec => ImplementsDirectory
    OBVIOUS
  <1>1. Init => Cohesive /\ Directory!Init
    BY DEF Init, Cohesive, Directory!Init, Held
  <1>2. IInv /\ Cohesive /\ IInv' /\ Cohesive' /\ [Next]_vars
           => [Directory!Next]_<<Held, {children[m] : m \in listed}, {current[m] : m \in listed}>>
    BY DirectoryStep DEF Devs, Offered
  <1> QED BY <1>1, <1>2, CohesiveStep, Invariance, PTL DEF Spec, ImplementsDirectory, Directory!Spec
=============================================================================
