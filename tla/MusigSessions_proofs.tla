------------------------ MODULE MusigSessions_proofs ------------------------
(***************************************************************************)
(* The session store never lets a nonce sign twice, for any number of      *)
(* slots, sessions, roots and positions.                                   *)
(***************************************************************************)
EXTENDS MusigSessions, WellFoundedInduction, TLAPS

\* A nonempty set of slots has a first element, so the loops of
\* musigsession_pop and musigsession_store stop at a slot they looked for.
LEMMA FirstIsMember ==
  ASSUME NEW S \in SUBSET Slots, S # {}
  PROVE  First(S) \in S /\ \A j \in S : First(S) <= j
<1> DEFINE Less == {ss \in Nat \X Nat : ss[1] < ss[2]}
<1>1. S \subseteq Nat
  BY ConstantsOK DEF Slots
<1>2. IsWellFoundedOn(Less, Nat)
  BY NatLessThanWellFounded, Zenon DEF OpToRel
<1>3. PICK x \in S : \A y \in S : ~(<<y, x>> \in Less)
  <2> HIDE DEF Less
  <2> QED BY <1>1, <1>2, WFMin
<1>4. ASSUME NEW y \in S PROVE x <= y
  <2>1. <<y, x>> \in Nat \X Nat /\ ~(<<y, x>> \in Less)
    BY <1>1, <1>3
  <2>2. ~(y < x)
    BY <2>1, Zenon
  <2> QED
    BY <1>1, <2>2
<1> QED
  BY <1>4 DEF First

\* musigsession_pop only zeroes slots, and when flash holds one session per
\* identifier it leaves none with this one.
LEMMA PopErases ==
  ASSUME NEW store \in [Slots -> Sessions \cup {Zero}], NEW id \in Ids
  PROVE  /\ musigsession_pop(store, id) \in [Slots -> Sessions \cup {Zero}]
         /\ \A i \in Slots : musigsession_pop(store, id)[i] \in {store[i], Zero}
         /\ (\A i, j \in Slots :
               store[i] # Zero /\ store[i].id = store[j].id => i = j)
            => \A i \in Slots : musigsession_pop(store, id)[i].id # id
<1> DEFINE H == Holding(store, id)
<1>1. H \in SUBSET Slots /\ (H # {} => First(H) \in H)
  BY FirstIsMember DEF Holding
<1>2. NoId # id /\ Zero.id = NoId
  BY ConstantsOK DEF Zero
<1>3. \A i \in Slots : i \in H <=> store[i].id = id
  BY DEF Holding
<1>4. \A i \in H : store[i] # Zero
  BY <1>2, <1>3 DEF Holding
<1> HIDE DEF H
<1>5. CASE H = {}
  BY <1>3, <1>5 DEF musigsession_pop, H
<1>6. CASE H # {}
  <2>1. musigsession_pop(store, id) = [store EXCEPT ![First(H)] = Zero]
    BY <1>6 DEF musigsession_pop, H
  <2> QED
    BY <1>1, <1>2, <1>3, <1>4, <1>6, <2>1
<1> QED
  BY <1>5, <1>6

\* The slot that musigsession_store writes is one of the store.
LEMMA SlotForIsSlot ==
  ASSUME NEW store
  PROVE  SlotFor(store) \in Slots
<1>1. 0 \in Slots
  BY ConstantsOK DEF Slots
<1> QED
  BY <1>1, FirstIsMember DEF SlotFor

\* A session found by round 2 is the one loaded, or one that flash holds.
LEMMA Round2Finds ==
  ASSUME TypeOK, NEW sid \in Ids, Available(sid)
  PROVE  /\ Round2Session(sid) \in Sessions
         /\ Round2Session(sid).id = sid
         /\ Loaded(sid) => Round2Session(sid) = musig.round2
         /\ ~Loaded(sid) => \E i \in Slots :
              /\ nvm[i] = Round2Session(sid)
              /\ musigsession_pop(nvm, sid) = [nvm EXCEPT ![i] = Zero]
<1>1. NoId # sid /\ Zero.id = NoId
  BY ConstantsOK DEF Zero
<1>2. CASE Loaded(sid)
  BY <1>1, <1>2 DEF Loaded, Round2Session, TypeOK
<1>3. CASE ~Loaded(sid)
  <2> DEFINE i == First(Holding(nvm, sid))
  <2>1. Holding(nvm, sid) # {}
    BY <1>3 DEF Available
  <2>2. i \in Slots /\ nvm[i].id = sid
    BY <2>1, FirstIsMember DEF Holding
  <2>3. Round2Session(sid) = nvm[i]
    BY <1>3 DEF Round2Session
  <2>4. musigsession_pop(nvm, sid) = [nvm EXCEPT ![i] = Zero]
    BY <2>1 DEF musigsession_pop
  <2> HIDE DEF i
  <2>5. nvm[i] \in Sessions
    BY <1>1, <2>2 DEF TypeOK
  <2> QED
    BY <1>3, <2>2, <2>3, <2>4, <2>5
<1> QED
  BY <1>2, <1>3
-----------------------------------------------------------------------------
\* Every step keeps the variables in their types.
LEMMA TypeStep ==
  ASSUME TypeOK, [Next]_vars
  PROVE  TypeOK'
<1> USE DEF TypeOK
<1>0. /\ ZeroState \in [round1 : Sessions \cup {Zero}, round2 : Sessions \cup {Zero}]
      /\ Idle \in [pc : {"idle", "signing", "storing"}, id : Ids \cup {NoId},
                   psbt : Roots \cup {0}, pos : 0 .. NPairs]
  BY ConstantsOK DEF ZeroState, Idle
<1>1. ASSUME Leave
      PROVE  /\ musig' \in [round1 : Sessions \cup {Zero}, round2 : Sessions \cup {Zero}]
             /\ flow' \in [pc : {"idle", "signing", "storing"}, id : Ids \cup {NoId},
                           psbt : Roots \cup {0}, pos : 0 .. NPairs]
  BY <1>0, <1>1 DEF Leave
<1>2. ASSUME NEW id \in Ids, NEW psbt \in Roots \cup {0}, Begin(id, psbt)
      PROVE  TypeOK'
  BY <1>0, <1>2, ConstantsOK DEF Begin
<1>3. ASSUME NEW sid \in Ids, NEW key_fetched \in BOOLEAN, NEW ok \in BOOLEAN,
             Round1(sid, key_fetched, ok)
      PROVE  TypeOK'
  <2> DEFINE fresh == musig.round1.id # sid
             session == IF fresh THEN [id |-> sid, root |-> Len(roots) + 1]
                                 ELSE musig.round1
  <2>1. session \in Sessions
    <3>1. fresh => Len(roots) + 1 \in Roots
      BY <1>3, ConstantsOK DEF Round1, Roots
    <3>2. ~fresh => musig.round1 \in Sessions
      BY ConstantsOK DEF Zero
    <3> QED
      BY <3>1, <3>2 DEF Sessions
  <2>2. nvm' \in [Slots -> Sessions \cup {Zero}]
    BY <1>3, PopErases DEF Round1
  <2>3. roots' \in Seq(Ids) /\ Len(roots') <= MaxRoots
    BY <1>3, ConstantsOK DEF Round1
  <2>4. issued' \subseteq Nonces
    <3>1. compute_rand_i_j(session, flow.pos) \in Nonces
      BY <1>3, <2>1, ConstantsOK DEF Round1, Sessions, Nonces, compute_rand_i_j, Positions
    <3> QED
      BY <1>3, <3>1 DEF Round1
  <2>5. CASE ok
    BY <1>3, <2>1, <2>2, <2>3, <2>4, <2>5, ConstantsOK DEF Round1, Advance
  <2>6. CASE ~ok
    BY <1>1, <1>3, <2>2, <2>3, <2>4, <2>6 DEF Round1
  <2> QED
    BY <2>5, <2>6
<1>4. ASSUME NEW sid \in Ids, NEW key_fetched \in BOOLEAN,
             Round2Missing(sid, key_fetched)
      PROVE  TypeOK'
  BY <1>1, <1>4 DEF Round2Missing
<1>5. ASSUME NEW sid \in Ids, NEW key_fetched \in BOOLEAN,
             NEW outcome \in {"failed", "unanswered", "yielded"},
             Round2(sid, key_fetched, outcome)
      PROVE  TypeOK'
  <2>1. Round2Session(sid) \in Sessions
    BY <1>5, Round2Finds DEF Round2
  <2>2. nvm' \in [Slots -> Sessions \cup {Zero}]
    BY <1>5, PopErases DEF Round2
  <2>3. uses' \in [Nonces -> Nat]
    <3>1. \A n \in Nonces : [uses EXCEPT ![n] = @ + 1] \in [Nonces -> Nat]
      OBVIOUS
    <3>2. compute_rand_i_j(Round2Session(sid), flow.pos) \in Nonces
      BY <1>5, <2>1, ConstantsOK
      DEF Round2, Round2Guard, Sessions, Nonces, compute_rand_i_j, Positions
    <3> QED
      BY <1>5, <3>1, <3>2 DEF Round2
  <2>4. CASE outcome = "yielded"
    <3>1. /\ musig' = [musig EXCEPT !.round2 = Round2Session(sid)]
          /\ flow' = [flow EXCEPT !.pos = @ + 1] /\ flow.pos < NPairs
          /\ UNCHANGED <<roots, issued>>
      BY <1>5, <2>4 DEF Round2, Round2Guard, Advance
    <3>2. musig' \in [round1 : Sessions \cup {Zero}, round2 : Sessions \cup {Zero}]
      BY <2>1, <3>1
    <3>3. flow' \in [pc : {"idle", "signing", "storing"}, id : Ids \cup {NoId},
                    psbt : Roots \cup {0}, pos : 0 .. NPairs]
      BY <3>1, ConstantsOK
    <3> QED
      BY <2>2, <2>3, <3>1, <3>2, <3>3
  <2>5. CASE outcome # "yielded"
    BY <1>1, <1>5, <2>2, <2>3, <2>5 DEF Round2
  <2> QED
    BY <2>4, <2>5
<1>6. CASE Commit
  <2>1. CASE musig.round1 = Zero
    BY <1>1, <1>6, <2>1 DEF Commit
  <2>2. CASE musig.round1 # Zero
    <3>1. musig.round1.id \in Ids
      BY <2>2 DEF Sessions
    <3> QED
      BY SMTT(30), <1>6, <2>2, <3>1, PopErases DEF Commit
  <2> QED
    BY <2>1, <2>2
<1>7. CASE CommitWrite
  BY <1>1, <1>7, SlotForIsSlot DEF CommitWrite
<1>8. CASE Interrupt
  BY <1>1, <1>8 DEF Interrupt
<1>9. CASE UNCHANGED vars
  BY <1>9 DEF vars
<1> QED
  BY <1>2, <1>3, <1>4, <1>5, <1>6, <1>7, <1>8, <1>9 DEF Next

\* Zeroing slots keeps the roots in flash distinct.
LEMMA ShrinkApart ==
  ASSUME IInv, \A i \in Slots : nvm'[i] \in {nvm[i], Zero}
  PROVE  \A i, j \in Slots : i # j => Apart(nvm[i], nvm[j])'
<1>1. \A i \in Slots : nvm[i] # Zero => nvm[i].root # Zero.root
  BY DEF IInv, TypeOK, Sessions, Roots, Zero
<1>2. \A i, j \in Slots : i # j => Apart(nvm[i], nvm[j])
  BY DEF IInv
<1> QED
  BY <1>1, <1>2 DEF Apart

\* A command that ends or starts: sessions may have left flash, the signing
\* state is zeroed and nothing has signed.
LEMMA Cleared ==
  ASSUME IInv, TypeOK', musig' = ZeroState, uses' = uses,
         flow'.pc # "storing",
         \A i \in Slots : nvm'[i] \in {nvm[i], Zero},
         roots' = roots \/ \E x \in Ids : roots' = Append(roots, x)
  PROVE  IInv'
<1>1. /\ Len(roots') >= Len(roots) /\ Len(roots') \in Nat
      /\ \A r \in 1 .. Len(roots) : roots'[r] = roots[r]
  <2>1. roots \in Seq(Ids)
    BY DEF IInv, TypeOK
  <2>2. ASSUME NEW x \in Ids, roots' = Append(roots, x)
        PROVE  Len(roots') = Len(roots) + 1 /\ \A r \in 1 .. Len(roots) : roots'[r] = roots[r]
    BY <2>1, <2>2
  <2> QED
    BY <2>1, <2>2
<1>2. \A i \in Slots : Live(nvm[i])'
  BY <1>1 DEF IInv, TypeOK, Live, Sessions, Roots
<1>3. \A i \in Slots : Unspent(nvm[i], 0)'
  BY DEF IInv, Unspent
<1>4. \A i, j \in Slots : i # j => Apart(nvm[i], nvm[j])'
  BY ShrinkApart
<1>5. \A i \in Slots : Apart(nvm[i], musig.round1)' /\ Apart(nvm[i], musig.round2)'
  BY DEF IInv, TypeOK, Apart, Sessions, Roots, Zero, ZeroState
<1>6. /\ Apart(musig.round1, musig.round2)'
      /\ Live(musig.round1)' /\ Unspent(musig.round1, 0)'
      /\ Live(musig.round2)' /\ Unspent(musig.round2, flow.pos)'
  BY DEF Apart, Live, Unspent, ZeroState
<1>7. \A n \in Nonces : n.root > Len(roots') => uses'[n] = 0
  BY <1>1 DEF IInv, TypeOK, Nonces, Roots
<1>8. NonceUsedOnce'
  BY DEF IInv, NonceUsedOnce
<1>9. OneSessionPerId'
  BY ConstantsOK DEF IInv, TypeOK, OneSessionPerId, Sessions, Zero
<1> QED
  BY <1>2, <1>3, <1>4, <1>5, <1>6, <1>7, <1>8, <1>9 DEF IInv

\* A round 1 step that is answered: its session is the one already in the
\* signing state, or has a root that no other session has and that has not
\* signed.
LEMMA Round1Step ==
  ASSUME IInv, TypeOK', NEW sid \in Ids, NEW key_fetched \in BOOLEAN,
         Round1(sid, key_fetched, TRUE)
  PROVE  IInv'
<1> DEFINE fresh == musig.round1.id # sid
           s == musig'.round1
<1>1. /\ roots \in Seq(Ids) /\ Len(roots) \in Nat
      /\ s = IF fresh THEN [id |-> sid, root |-> Len(roots) + 1] ELSE musig.round1
      /\ musig'.round2 = musig.round2
      /\ roots' = IF fresh THEN Append(roots, sid) ELSE roots
      /\ nvm' = musigsession_pop(nvm, sid)
      /\ uses' = uses
      /\ flow'.pc = "signing" /\ flow'.pos = flow.pos + 1 /\ flow.pos \in Nat
  BY ConstantsOK DEF Round1, Advance, IInv, TypeOK
<1>2. \A i \in Slots : nvm'[i] \in {nvm[i], Zero}
  BY <1>1, PopErases DEF IInv, TypeOK
<1>3. /\ Len(roots') >= Len(roots) /\ Len(roots') \in Nat
      /\ \A r \in 1 .. Len(roots) : roots'[r] = roots[r]
  BY <1>1
<1>4. s # Zero /\ s \in Sessions
  BY ConstantsOK, <1>1 DEF IInv, TypeOK, Zero
<1>5. Live(musig.round1)'
  <2>1. CASE fresh
    BY <1>1, <2>1 DEF Live
  <2>2. CASE ~fresh
    BY <1>1, <2>2 DEF Live, IInv
  <2> QED
    BY <2>1, <2>2
<1>6. Unspent(musig.round1, 0)'
  <2>1. CASE fresh
    <3>1. \A p \in Positions : compute_rand_i_j(s, p) \in Nonces
                             /\ compute_rand_i_j(s, p).root = Len(roots) + 1
      BY <1>1, <1>4, <2>1 DEF compute_rand_i_j, Nonces, Sessions
    <3> QED
      BY <1>1, <2>1, <3>1 DEF Unspent, IInv
  <2>2. CASE ~fresh
    BY <1>1, <2>2 DEF Unspent, IInv
  <2> QED
    BY <2>1, <2>2
<1>7. \A i \in Slots : Live(nvm[i])'
  <2>1. \A i \in Slots : nvm[i] # Zero =>
          nvm[i].root \in 1 .. Len(roots) /\ roots[nvm[i].root] = nvm[i].id
    BY <1>1 DEF IInv, TypeOK, Live, Sessions, Roots
  <2> QED
    BY <1>2, <1>3, <2>1 DEF Live
<1>8. \A i \in Slots : Unspent(nvm[i], 0)'
  BY <1>1, <1>2 DEF IInv, Unspent
<1>9. \A i, j \in Slots : i # j => Apart(nvm[i], nvm[j])'
  BY <1>2, ShrinkApart
<1>10. \A i \in Slots : Apart(nvm[i], musig.round1)' /\ Apart(nvm[i], musig.round2)'
  <2>1. CASE fresh
    BY <1>1, <1>2, <2>1 DEF IInv, TypeOK, Apart, Live, Sessions, Roots, Zero
  <2>2. CASE ~fresh
    BY <1>1, <1>2, <2>2 DEF IInv, Apart
  <2> QED
    BY <2>1, <2>2
<1>11. Live(musig.round2)' /\ Unspent(musig.round2, flow.pos)'
  <2>1. Live(musig.round2)'
    BY <1>1, <1>3 DEF IInv, TypeOK, Live, Sessions, Roots
  <2>2. \A p \in Positions : p >= flow.pos + 1 => p >= flow.pos
    BY <1>1, ConstantsOK DEF Positions
  <2> QED
    BY <1>1, <2>1, <2>2 DEF IInv, Unspent
<1>12. Apart(musig.round1, musig.round2)'
  <2>1. CASE fresh
    BY <1>1, <2>1 DEF IInv, TypeOK, Apart, Live, Sessions, Roots, Zero
  <2>2. CASE ~fresh
    BY <1>1, <2>2 DEF IInv, Apart
  <2> QED
    BY <2>1, <2>2
<1>13. \A n \in Nonces : n.root > Len(roots') => uses'[n] = 0
  BY <1>1, <1>3 DEF IInv, Nonces, Roots
<1>14. NonceUsedOnce' /\ OneSessionPerId'
  BY <1>1, <1>2, ConstantsOK
  DEF IInv, TypeOK, NonceUsedOnce, OneSessionPerId, Sessions, Zero
<1> QED
  BY <1>1, <1>5, <1>6, <1>7, <1>8, <1>9, <1>10, <1>11, <1>12, <1>13, <1>14 DEF IInv

\* The session that round 2 uses is no longer in flash after the step.
LEMMA Round2Removes ==
  ASSUME IInv, NEW sid \in Ids, NEW key_fetched \in BOOLEAN,
         NEW outcome \in {"failed", "unanswered", "yielded"},
         Round2(sid, key_fetched, outcome)
  PROVE  /\ \A i \in Slots : nvm'[i] \in {nvm[i], Zero}
         /\ \A i \in Slots : nvm'[i] # Zero => nvm'[i].root # Round2Session(sid).root
<1> DEFINE s == Round2Session(sid)
<1>1. /\ Available(sid)
      /\ nvm' = IF Loaded(sid) THEN nvm ELSE musigsession_pop(nvm, sid)
  BY DEF Round2
<1>2. /\ Loaded(sid) => s = musig.round2
      /\ ~Loaded(sid) => \E i \in Slots :
           nvm[i] = s /\ musigsession_pop(nvm, sid) = [nvm EXCEPT ![i] = Zero]
  BY <1>1, Round2Finds DEF IInv
<1> HIDE DEF s
<1> QED
  <2>1. CASE Loaded(sid)
    BY <1>1, <1>2, <2>1 DEF IInv, Apart, s
  <2>2. CASE ~Loaded(sid)
    <3>1. PICK i \in Slots : nvm[i] = s /\ nvm' = [nvm EXCEPT ![i] = Zero]
      BY <1>1, <1>2, <2>2
    <3>2. \A j \in Slots : nvm'[j] = IF j = i THEN Zero ELSE nvm[j]
      BY <3>1 DEF IInv, TypeOK
    <3> QED
      BY <3>1, <3>2 DEF IInv, Apart, s
  <2> QED
    BY <2>1, <2>2

\* A partial signature: the nonce belongs to the session that round 2 holds or
\* takes out of flash, so it has not signed and no other session derives it.
LEMMA Round2Step ==
  ASSUME IInv, TypeOK', NEW sid \in Ids, NEW key_fetched \in BOOLEAN,
         NEW outcome \in {"unanswered", "yielded"},
         Round2(sid, key_fetched, outcome)
  PROVE  IInv'
<1> DEFINE s == Round2Session(sid)
           n == compute_rand_i_j(s, flow.pos)
<1>1. /\ Available(sid) /\ roots' = roots
      /\ nvm' = IF Loaded(sid) THEN nvm ELSE musigsession_pop(nvm, sid)
      /\ uses' = [uses EXCEPT ![n] = @ + 1]
      /\ flow.pos \in Positions /\ flow.pos \in Nat
      /\ flow'.pc # "storing"
      /\ \/ musig' = ZeroState
         \/ musig'.round1 = musig.round1 /\ musig'.round2 = s
            /\ flow'.pos = flow.pos + 1
  <2>1. /\ Available(sid) /\ roots' = roots
        /\ nvm' = IF Loaded(sid) THEN nvm ELSE musigsession_pop(nvm, sid)
        /\ uses' = [uses EXCEPT ![n] = @ + 1]
    BY DEF Round2
  <2>2. /\ flow.pos \in Positions /\ flow.pos \in Nat
        /\ flow.pc = "signing"
    BY ConstantsOK DEF Round2, Round2Guard, IInv, TypeOK, Positions
  <2>3. CASE outcome = "yielded"
    <3>1. /\ flow' = [flow EXCEPT !.pos = @ + 1]
          /\ musig' = [musig EXCEPT !.round2 = s]
      BY <2>3 DEF Round2, Advance
    <3> QED
      BY <2>1, <2>2, <3>1 DEF IInv, TypeOK
  <2>4. CASE outcome = "unanswered"
    BY <2>1, <2>2, <2>4 DEF Round2, Leave, Idle
  <2> QED
    BY <2>3, <2>4
<1>2. /\ s \in Sessions /\ s # Zero /\ s.id = sid
      /\ Loaded(sid) => s = musig.round2
      /\ ~Loaded(sid) => \E i \in Slots :
           nvm[i] = s /\ musigsession_pop(nvm, sid) = [nvm EXCEPT ![i] = Zero]
  BY <1>1, Round2Finds, ConstantsOK DEF IInv, Zero
<1> HIDE DEF s
<1>3. /\ \A i \in Slots : nvm'[i] \in {nvm[i], Zero}
      /\ \A i \in Slots : nvm'[i] # Zero => nvm'[i].root # s.root
  BY Round2Removes DEF s
<1>4. s.root <= Len(roots) /\ roots[s.root] = s.id /\ s.root # musig.round1.root
  BY <1>2 DEF IInv, Live, Apart, TypeOK, Sessions, Roots, Zero
<1>5. \A p \in Positions : p >= flow.pos => uses[compute_rand_i_j(s, p)] = 0
  <2>1. \A p \in Positions : p >= 0
    BY ConstantsOK DEF Positions
  <2> QED
    BY <1>2, <2>1 DEF IInv, Unspent
<1>6. n \in Nonces /\ uses[n] = 0
  BY <1>1, <1>2, <1>5 DEF Nonces, Sessions, compute_rand_i_j
<1>7. \A m \in Nonces : uses'[m] = IF m = n THEN 1 ELSE uses[m]
  BY <1>1, <1>6 DEF IInv, TypeOK
<1>8. \A t, p : compute_rand_i_j(t, p) = n <=> t.root = s.root /\ p = flow.pos
  BY DEF compute_rand_i_j
<1>9. ASSUME NEW t \in Sessions, NEW p \in Positions, t.root # s.root \/ p # flow.pos
      PROVE  uses'[compute_rand_i_j(t, p)] = uses[compute_rand_i_j(t, p)]
  BY <1>7, <1>8, <1>9 DEF compute_rand_i_j, Nonces, Sessions
<1> HIDE DEF n
<1>10. \A i \in Slots : Live(nvm[i])' /\ Unspent(nvm[i], 0)'
  <2>1. ASSUME NEW i \in Slots, nvm'[i] # Zero
        PROVE  /\ nvm'[i] = nvm[i] /\ nvm[i] \in Sessions /\ nvm[i].root # s.root
               /\ Live(nvm[i]) /\ Unspent(nvm[i], 0)
    BY <1>3, <2>1 DEF IInv, TypeOK
  <2>2. \A i \in Slots : Live(nvm[i])'
    BY <1>1, <2>1 DEF Live
  <2>3. \A i \in Slots : Unspent(nvm[i], 0)'
    BY <1>9, <2>1 DEF Unspent
  <2> QED
    BY <2>2, <2>3
<1>11. \A i, j \in Slots : i # j => Apart(nvm[i], nvm[j])'
  BY <1>3, ShrinkApart
<1>12. NonceUsedOnce'
  BY <1>7 DEF IInv, NonceUsedOnce
<1>13. \A m \in Nonces : m.root > Len(roots') => uses'[m] = 0
  <2>1. n.root <= Len(roots) /\ Len(roots) \in Nat /\ n.root \in Nat
    BY <1>2, <1>4 DEF n, compute_rand_i_j, IInv, TypeOK, Sessions, Roots
  <2> QED
    BY <1>1, <1>7, <2>1 DEF IInv, Nonces, Roots
<1>14. OneSessionPerId'
  BY <1>3, ConstantsOK DEF IInv, TypeOK, OneSessionPerId, Sessions, Zero
<1>15. CASE musig' = ZeroState
  <2>1. \A i \in Slots : Apart(nvm[i], musig.round1)' /\ Apart(nvm[i], musig.round2)'
    BY <1>3, <1>15 DEF IInv, TypeOK, Apart, Sessions, Roots, Zero, ZeroState
  <2>2. /\ Apart(musig.round1, musig.round2)'
        /\ Live(musig.round1)' /\ Unspent(musig.round1, 0)'
        /\ Live(musig.round2)' /\ Unspent(musig.round2, flow.pos)'
    BY <1>15 DEF Apart, Live, Unspent, ZeroState
  <2> QED
    BY <1>1, <1>10, <1>11, <1>12, <1>13, <1>14, <2>1, <2>2 DEF IInv
<1>16. CASE musig'.round1 = musig.round1 /\ musig'.round2 = s
            /\ flow'.pos = flow.pos + 1
  <2>1. \A i \in Slots : Apart(nvm[i], musig.round1)' /\ Apart(nvm[i], musig.round2)'
    BY <1>3, <1>16 DEF IInv, Apart
  <2>2. Apart(musig.round1, musig.round2)'
    BY <1>4, <1>16 DEF Apart
  <2>3. Live(musig.round1)' /\ Live(musig.round2)'
    BY <1>1, <1>4, <1>16 DEF IInv, Live
  <2>4. Unspent(musig.round1, 0)'
    BY SMTT(30), ZenonT(20), <1>4, <1>9, <1>16 DEF IInv, TypeOK, Unspent
  <2>5. Unspent(musig.round2, flow.pos)'
    <3>1. \A p \in Positions : p >= flow.pos + 1 => p >= flow.pos /\ p # flow.pos
      BY SMTT(30), ZenonT(20), <1>1, ConstantsOK DEF Positions
    <3> QED
      BY <1>2, <1>5, <1>9, <1>16, <3>1 DEF Unspent
  <2> QED
    BY <1>1, <1>10, <1>11, <1>12, <1>13, <1>14, <2>1, <2>2, <2>3, <2>4, <2>5 DEF IInv
<1> QED
  BY <1>1, <1>15, <1>16

\* musigsession_commit: the first write only zeroes slots; after the second the
\* session has moved from the signing state to flash.
LEMMA CommitStep ==
  ASSUME IInv, TypeOK', Commit
  PROVE  IInv'
<1>1. CASE musig.round1 = Zero
  <2>1. musig' = ZeroState /\ flow'.pc # "storing" /\ UNCHANGED <<nvm, uses, roots>>
    BY <1>1 DEF Commit, Leave, Idle
  <2> QED
    BY <2>1, Cleared DEF IInv, TypeOK
<1>2. CASE musig.round1 # Zero
  <2>1. musig.round1.id \in Ids
    BY <1>2 DEF IInv, TypeOK, Sessions
  <2>2. /\ nvm' = musigsession_pop(nvm, musig.round1.id)
        /\ flow'.pos = flow.pos /\ UNCHANGED <<musig, uses, roots>>
    BY <1>2 DEF Commit, IInv, TypeOK
  <2>3. /\ \A i \in Slots : nvm'[i] \in {nvm[i], Zero}
        /\ \A i \in Slots : nvm'[i].id # musig.round1.id
    <3>1. nvm \in [Slots -> Sessions \cup {Zero}] /\ OneSessionPerId
      BY DEF IInv, TypeOK
    <3> QED
      BY <2>1, <2>2, <3>1, PopErases DEF OneSessionPerId
  <2>4. \A i \in Slots : Live(nvm[i])' /\ Unspent(nvm[i], 0)'
    BY SMTT(30), ZenonT(20), <2>2, <2>3 DEF IInv, Live, Unspent
  <2>5. \A i, j \in Slots : i # j => Apart(nvm[i], nvm[j])'
    BY <2>3, ShrinkApart
  <2>6. \A i \in Slots : Apart(nvm[i], musig.round1)' /\ Apart(nvm[i], musig.round2)'
    BY <2>2, <2>3 DEF IInv, Apart
  <2>7. /\ Apart(musig.round1, musig.round2)'
        /\ Live(musig.round1)' /\ Unspent(musig.round1, 0)'
        /\ Live(musig.round2)' /\ Unspent(musig.round2, flow.pos)'
        /\ NonceUsedOnce'
        /\ \A m \in Nonces : m.root > Len(roots') => uses'[m] = 0
    BY <2>2 DEF IInv, Apart, Live, Unspent, NonceUsedOnce
  <2>8. OneSessionPerId'
    BY <2>3, ConstantsOK DEF IInv, TypeOK, OneSessionPerId, Sessions, Zero
  <2> QED
    BY <1>2, <2>2, <2>3, <2>4, <2>5, <2>6, <2>7, <2>8 DEF IInv
<1> QED
  BY <1>1, <1>2

\* musigsession_store's second write: the session of round 1, which no slot
\* holds, replaces what one slot held, and the signing state is zeroed.
LEMMA CommitWriteStep ==
  ASSUME IInv, TypeOK', CommitWrite
  PROVE  IInv'
<1> DEFINE k == SlotFor(nvm)
           s == musig.round1
<1>1. /\ k \in Slots /\ nvm' = [nvm EXCEPT ![k] = s]
      /\ musig' = ZeroState /\ flow'.pc # "storing" /\ UNCHANGED <<uses, roots>>
      /\ s # Zero /\ \A i \in Slots : nvm[i].id # s.id
  BY SlotForIsSlot DEF CommitWrite, Leave, Idle, IInv
<1>2. \A i \in Slots : nvm'[i] = IF i = k THEN s ELSE nvm[i]
  BY <1>1 DEF IInv, TypeOK
<1> HIDE DEF k
<1>3. \A i \in Slots : Live(nvm[i])' /\ Unspent(nvm[i], 0)'
  <2> SUFFICES ASSUME NEW i \in Slots PROVE Live(nvm[i])' /\ Unspent(nvm[i], 0)'
    OBVIOUS
  <2>1. Live(nvm[i]) /\ Unspent(nvm[i], 0) /\ Live(s) /\ Unspent(s, 0)
    BY DEF IInv
  <2>2. nvm'[i] = nvm[i] \/ nvm'[i] = s
    BY <1>2
  <2> QED
    BY <1>1, <2>1, <2>2 DEF Live, Unspent
<1>4. \A i, j \in Slots : i # j => Apart(nvm[i], nvm[j])'
  <2> SUFFICES ASSUME NEW i \in Slots, NEW j \in Slots, i # j
               PROVE  Apart(nvm[i], nvm[j])'
    OBVIOUS
  <2>1. Apart(nvm[i], nvm[j]) /\ Apart(nvm[i], s) /\ Apart(nvm[j], s)
    BY DEF IInv
  <2>2. Apart(s, nvm[j])
    <3>1. s \in Sessions
      BY <1>1 DEF IInv, TypeOK
    <3>2. CASE nvm[j] = Zero
      BY <3>1, <3>2 DEF Apart, Sessions, Roots, Zero
    <3>3. CASE nvm[j] # Zero
      BY <2>1, <3>3 DEF Apart
    <3> QED
      BY <3>2, <3>3
  <2>3. \/ nvm'[i] = nvm[i] /\ nvm'[j] = nvm[j]
        \/ nvm'[i] = s /\ nvm'[j] = nvm[j]
        \/ nvm'[i] = nvm[i] /\ nvm'[j] = s
    BY <1>2
  <2> QED
    BY <2>1, <2>2, <2>3 DEF Apart
<1>5. \A i \in Slots : Apart(nvm[i], musig.round1)' /\ Apart(nvm[i], musig.round2)'
  <2>1. musig'.round1 = Zero /\ musig'.round2 = Zero
    BY <1>1 DEF ZeroState
  <2>2. \A i \in Slots : nvm'[i] \in Sessions \cup {Zero}
    BY DEF TypeOK
  <2> QED
    BY <2>1, <2>2 DEF Apart, Sessions, Roots, Zero
<1>6. /\ Apart(musig.round1, musig.round2)'
      /\ Live(musig.round1)' /\ Unspent(musig.round1, 0)'
      /\ Live(musig.round2)' /\ Unspent(musig.round2, flow.pos)'
      /\ NonceUsedOnce'
      /\ \A m \in Nonces : m.root > Len(roots') => uses'[m] = 0
  <2>1. musig'.round1 = Zero /\ musig'.round2 = Zero
    BY <1>1 DEF ZeroState
  <2>2. NonceUsedOnce /\ \A m \in Nonces : m.root > Len(roots) => uses[m] = 0
    BY DEF IInv
  <2> QED
    BY <1>1, <2>1, <2>2 DEF Apart, Live, Unspent, NonceUsedOnce
<1>7. OneSessionPerId'
  BY <1>1, <1>2 DEF IInv, OneSessionPerId
<1> QED
  BY <1>1, <1>3, <1>4, <1>5, <1>6, <1>7 DEF IInv
-----------------------------------------------------------------------------
\* The invariant is inductive: one step per action.
LEMMA Inductive == IInv /\ [Next]_vars => IInv'
<1> SUFFICES ASSUME IInv, [Next]_vars PROVE IInv'
  OBVIOUS
<1>0. TypeOK'
  BY TypeStep DEF IInv
<1>1. ASSUME NEW id \in Ids, NEW psbt \in Roots \cup {0}, Begin(id, psbt)
      PROVE  IInv'
  <2>1. musig' = ZeroState /\ flow'.pc # "storing" /\ UNCHANGED <<nvm, uses, roots>>
    BY <1>1 DEF Begin
  <2> QED
    BY <1>0, <2>1, Cleared
<1>2. ASSUME NEW sid \in Ids, NEW key_fetched \in BOOLEAN, NEW ok \in BOOLEAN,
             Round1(sid, key_fetched, ok)
      PROVE  IInv'
  <2>1. CASE ok = FALSE
    <3>1. musig' = ZeroState /\ flow'.pc # "storing" /\ uses' = uses
      BY <1>2, <2>1 DEF Round1, Leave, Idle
    <3>2. roots' = roots \/ roots' = Append(roots, sid)
      BY <1>2 DEF Round1
    <3>3. \A i \in Slots : nvm'[i] \in {nvm[i], Zero}
      BY <1>2, PopErases DEF Round1, IInv, TypeOK
    <3> QED
      BY <1>0, <3>1, <3>2, <3>3, Cleared
  <2>2. CASE ok = TRUE
    BY <1>0, <1>2, <2>2, Round1Step
  <2> QED
    BY <2>1, <2>2
<1>3. ASSUME NEW sid \in Ids, NEW key_fetched \in BOOLEAN,
             Round2Missing(sid, key_fetched)
      PROVE  IInv'
  <2>1. musig' = ZeroState /\ flow'.pc # "storing" /\ UNCHANGED <<nvm, uses, roots>>
    BY <1>3 DEF Round2Missing, Leave, Idle
  <2> QED
    BY <1>0, <2>1, Cleared
<1>4. ASSUME NEW sid \in Ids, NEW key_fetched \in BOOLEAN,
             NEW outcome \in {"failed", "unanswered", "yielded"},
             Round2(sid, key_fetched, outcome)
      PROVE  IInv'
  <2>1. CASE outcome = "failed"
    <3>1. musig' = ZeroState /\ flow'.pc # "storing" /\ UNCHANGED <<uses, roots>>
      BY <1>4, <2>1 DEF Round2, Leave, Idle
    <3>2. \A i \in Slots : nvm'[i] \in {nvm[i], Zero}
      BY <1>4, PopErases DEF Round2, IInv, TypeOK
    <3> QED
      BY <1>0, <3>1, <3>2, Cleared
  <2>2. CASE outcome # "failed"
    BY <1>0, <1>4, <2>2, Round2Step
  <2> QED
    BY <2>1, <2>2
<1>5. CASE Commit
  BY <1>0, <1>5, CommitStep
<1>6. CASE CommitWrite
  BY <1>0, <1>6, CommitWriteStep
<1>7. CASE Interrupt
  <2>1. musig' = ZeroState /\ flow'.pc # "storing" /\ UNCHANGED <<nvm, uses, roots>>
    BY <1>7 DEF Interrupt, Leave, Idle
  <2> QED
    BY <1>0, <2>1, Cleared
<1>8. CASE UNCHANGED vars
  <2>1. UNCHANGED <<nvm, musig, flow, roots, uses>>
    BY <1>8 DEF vars
  <2> QED
    BY <1>0, <2>1 DEF IInv, Live, Unspent, Apart, NonceUsedOnce, OneSessionPerId
<1> QED
  BY <1>1, <1>2, <1>3, <1>4, <1>5, <1>6, <1>7, <1>8 DEF Next

\* Flash is empty and nothing has signed when the app is installed.
LEMMA InitIInv == Init => IInv
<1> SUFFICES ASSUME Init PROVE IInv
  OBVIOUS
<1>1. TypeOK
  BY ConstantsOK DEF Init, TypeOK, ZeroState, Idle
<1>2. /\ \A i \in Slots : nvm[i] = Zero
      /\ musig.round1 = Zero /\ musig.round2 = Zero
      /\ \A n \in Nonces : uses[n] = 0
  BY DEF Init, ZeroState
<1>3. NonceUsedOnce /\ OneSessionPerId
  BY <1>2 DEF NonceUsedOnce, OneSessionPerId
<1> QED
  BY <1>1, <1>2, <1>3 DEF Init, IInv, Live, Unspent, Apart, Idle

\* The inductive invariant holds in every reachable state.
THEOREM Invariance == Spec => []IInv
BY InitIInv, Inductive, PTL DEF Spec

\* No nonce makes two partial signatures, for any number of slots, sessions,
\* roots and positions, and whatever is interrupted or replayed.
THEOREM NoNonceReuse == Spec => []NonceUsedOnce
<1>1. IInv => NonceUsedOnce
  BY DEF IInv
<1> QED
  BY <1>1, Invariance, PTL

\* Flash never holds a session one of whose nonces has signed.
THEOREM StoredUnused == Spec => []StoredIsUnused
<1>1. IInv => StoredIsUnused
  <2>1. \A p \in Positions : p >= 0
    BY ConstantsOK DEF Positions
  <2> QED
    BY <2>1 DEF IInv, StoredIsUnused, Unspent
<1> QED
  BY <1>1, Invariance, PTL

\* Flash never holds two sessions of the same transaction.
THEOREM UniqueSession == Spec => []OneSessionPerId
<1>1. IInv => OneSessionPerId
  BY DEF IInv
<1> QED
  BY <1>1, Invariance, PTL
-----------------------------------------------------------------------------
(***************************************************************************)
(* The refinement.  A root moves only along the life cycle because flash   *)
(* shrinks in every step but the one that stores the session of round 1.   *)
(***************************************************************************)
InFlash(r) == \E i \in Slots : nvm[i].root = r

\* The stage of a root, read from where it lives.
LifeFacts ==
  \A r \in Roots :
    /\ Life(r) \in Lifecycle!Stages
    /\ Life(r) = "undrawn" <=> r > Len(roots)
    /\ Life(r) = "kept" <=> InFlash(r)
    /\ Life(r) = "spending" <=> musig.round2.root = r
    /\ Life(r) = "fresh" <=> musig.round1.root = r

\* Under the invariant the stages of LifeFacts exclude each other.
LEMMA LifeCases == IInv => LifeFacts
<1> SUFFICES ASSUME IInv, NEW r \in Roots
             PROVE  /\ Life(r) \in Lifecycle!Stages
                    /\ Life(r) = "undrawn" <=> r > Len(roots)
                    /\ Life(r) = "kept" <=> InFlash(r)
                    /\ Life(r) = "spending" <=> musig.round2.root = r
                    /\ Life(r) = "fresh" <=> musig.round1.root = r
  BY DEF LifeFacts
<1>1. r \in Nat \ {0} /\ Len(roots) \in Nat /\ Zero.root = 0
  BY ConstantsOK DEF Roots, IInv, TypeOK, Zero
<1>2. \A i \in Slots : nvm[i].root = r => nvm[i] # Zero
  BY <1>1
<1>3. /\ musig.round1.root = r => musig.round1 # Zero
      /\ musig.round2.root = r => musig.round2 # Zero
  BY <1>1
<1>4. InFlash(r) => /\ ~(r > Len(roots))
                    /\ musig.round1.root # r /\ musig.round2.root # r
  BY <1>1, <1>2 DEF IInv, Live, Apart, InFlash
<1>5. musig.round2.root = r => ~(r > Len(roots)) /\ musig.round1.root # r
  <2>1. Live(musig.round2) /\ Apart(musig.round1, musig.round2)
    BY DEF IInv
  <2> QED
    BY <1>1, <1>3, <2>1 DEF Live, Apart
<1>6. musig.round1.root = r => ~(r > Len(roots))
  <2>1. Live(musig.round1)
    BY DEF IInv
  <2> QED
    BY <1>1, <1>3, <2>1 DEF Live
<1>7. ~(r > Len(roots)) <=> r <= Len(roots)
  BY <1>1
<1> QED
  BY <1>4, <1>5, <1>6, <1>7 DEF Life, InFlash, Lifecycle!Stages

\* A step that stores nothing moves no root backwards.
LEMMA MayShrink ==
  ASSUME IInv, IInv', NEW r \in Roots,
         \A i \in Slots : nvm'[i] \in {nvm[i], Zero},
         Len(roots') >= Len(roots),
         musig'.round1.root = r => r > Len(roots) \/ musig.round1.root = r,
         musig'.round2.root = r => InFlash(r) \/ musig.round2.root = r
  PROVE  Lifecycle!May(Life(r), Life(r)')
<1>1. r \in Nat \ {0} /\ Len(roots) \in Nat /\ Len(roots') \in Nat /\ Zero.root = 0
  <2>1. roots \in Seq(Ids) /\ roots' \in Seq(Ids)
    BY DEF IInv, TypeOK
  <2> QED
    BY <2>1, ConstantsOK DEF Roots, Zero
<1>2. InFlash(r)' => InFlash(r)
  BY <1>1 DEF InFlash
<1>3. LifeFacts /\ LifeFacts'
  BY LifeCases, PTL
<1>4. r > Len(roots') => r > Len(roots)
  BY <1>1
<1> QED
  BY <1>2, <1>3, <1>4 DEF LifeFacts, Lifecycle!May, Lifecycle!Stages

\* Every step is a step of the life cycle.
LEMMA StepSimulation ==
  IInv /\ IInv' /\ [Next]_vars => [Lifecycle!Next]_(Lifecycle!vars)
<1> SUFFICES ASSUME IInv, IInv', [Next]_vars
             PROVE  Lifecycle!Next
  OBVIOUS
<1> DEFINE Moves == \A r \in Roots : Lifecycle!May(Life(r), Life(r)')
           Used == {np \in Roots \X Positions :
                      uses[[root |-> np[1], pos |-> np[2]]] > 0}
<1>1. SUFFICES Moves /\ Lifecycle!MaySign
  <2>1. LifeFacts'
    BY LifeCases, PTL
  <2>2. [r \in Roots |-> Life(r)]' \in [Roots -> Lifecycle!Stages]
    BY <2>1 DEF LifeFacts
  <2> QED
    BY <2>2 DEF Lifecycle!Next
<1>2. roots \in Seq(Ids) /\ roots' \in Seq(Ids) /\ Zero.root = 0
      /\ ZeroState.round1.root = 0 /\ ZeroState.round2.root = 0 /\ 0 \notin Roots
  <2>1. roots \in Seq(Ids) /\ roots' \in Seq(Ids)
    BY DEF IInv, TypeOK
  <2> QED
    BY <2>1, ConstantsOK DEF Zero, ZeroState, Roots
<1>3. uses' = uses => Lifecycle!MaySign
  BY DEF Lifecycle!MaySign
<1>4. ASSUME musig' = ZeroState, roots' = roots,
             \A i \in Slots : nvm'[i] \in {nvm[i], Zero}
      PROVE  Moves
  BY <1>2, <1>4, MayShrink
<1>5. ASSUME NEW id \in Ids, NEW psbt \in Roots \cup {0}, Begin(id, psbt)
      PROVE  Moves /\ Lifecycle!MaySign
  BY <1>3, <1>4, <1>5 DEF Begin
<1>6. ASSUME NEW sid \in Ids, NEW key_fetched \in BOOLEAN, NEW ok \in BOOLEAN,
             Round1(sid, key_fetched, ok)
      PROVE  Moves /\ Lifecycle!MaySign
  <2>1. \A i \in Slots : nvm'[i] \in {nvm[i], Zero}
    BY <1>6, PopErases DEF Round1, IInv, TypeOK
  <2>2. Len(roots') >= Len(roots) /\ Len(roots) \in Nat
    BY <1>2, <1>6 DEF Round1
  <2>3. /\ \/ musig'.round1.root \in {Len(roots) + 1, musig.round1.root}
           \/ musig'.round1.root = 0
        /\ \/ musig'.round2.root = musig.round2.root
           \/ musig'.round2.root = 0
    <3>1. CASE ok
      BY <1>6, <3>1 DEF Round1, Advance, IInv, TypeOK
    <3>2. CASE ~ok
      BY <1>2, <1>6, <3>2 DEF Round1, Leave
    <3> QED
      BY <3>1, <3>2
  <2>4. Moves
    BY <1>2, <2>1, <2>2, <2>3, MayShrink
  <2> QED
    BY <1>3, <1>6, <2>4 DEF Round1
<1>7. ASSUME NEW sid \in Ids, NEW key_fetched \in BOOLEAN,
             Round2Missing(sid, key_fetched)
      PROVE  Moves /\ Lifecycle!MaySign
  BY <1>3, <1>4, <1>7 DEF Round2Missing, Leave
<1>8. ASSUME NEW sid \in Ids, NEW key_fetched \in BOOLEAN,
             NEW outcome \in {"failed", "unanswered", "yielded"},
             Round2(sid, key_fetched, outcome)
      PROVE  Moves /\ Lifecycle!MaySign
  <2> DEFINE s == Round2Session(sid)
             n == compute_rand_i_j(s, flow.pos)
  <2>1. \A i \in Slots : nvm'[i] \in {nvm[i], Zero}
    BY <1>8, PopErases DEF Round2, IInv, TypeOK
  <2>2. Available(sid) /\ roots' = roots /\ flow.pos \in Positions
    BY <1>8, ConstantsOK DEF Round2, Round2Guard, IInv, TypeOK, Positions
  <2>3. s \in Sessions /\ (InFlash(s.root) \/ musig.round2.root = s.root)
    BY <2>2, Round2Finds DEF InFlash, IInv
  <2>4. \/ musig' = ZeroState
        \/ musig' = [musig EXCEPT !.round2 = s]
    BY <1>8 DEF Round2, Leave
  <2> HIDE DEF s
  <2>5. Moves
    <3>1. CASE musig' = ZeroState
      BY <1>4, <2>1, <2>2, <3>1
    <3>2. CASE musig' = [musig EXCEPT !.round2 = s]
      <4>1. musig'.round1 = musig.round1 /\ musig'.round2 = s
        BY <3>2 DEF IInv, TypeOK
      <4>2. Len(roots') >= Len(roots)
        BY <1>2, <2>2
      <4> QED
        BY <2>1, <2>3, <4>1, <4>2, MayShrink
    <3> QED
      BY <2>4, <3>1, <3>2
  <2>6. Lifecycle!MaySign
    <3>1. CASE outcome = "failed"
      BY <1>3, <1>8, <3>1 DEF Round2
    <3>2. CASE outcome # "failed"
      <4>1. uses' = [uses EXCEPT ![n] = @ + 1] /\ n \in Nonces
        BY <1>8, <2>2, <2>3, <3>2
        DEF Round2, s, Nonces, compute_rand_i_j, Sessions
      <4>2. s.root \in Roots /\ n.root = s.root /\ n.pos = flow.pos
        BY <2>3 DEF Sessions, compute_rand_i_j
      <4>3. uses'[n] = uses[n] + 1 /\ uses[n] \in Nat /\ uses'[n] <= 1
        BY <4>1 DEF IInv, TypeOK, NonceUsedOnce
      <4>4. PICK r \in Roots, p \in Positions : r = s.root /\ p = flow.pos
        BY <2>2, <4>2
      <4>5. Used' = Used \cup {<<r, p>>} /\ <<r, p>> \notin Used
        <5>1. n = [root |-> r, pos |-> p]
          BY <4>4 DEF compute_rand_i_j
        <5> HIDE DEF n
        <5>2. \A m \in Nonces : m # n => uses'[m] = uses[m]
          BY <4>1 DEF IInv, TypeOK
        <5>3. uses'[n] > 0 /\ ~(uses[n] > 0)
          BY <4>3
        <5>4. \A q \in Roots, t \in Positions :
                /\ [root |-> q, pos |-> t] \in Nonces
                /\ [root |-> q, pos |-> t] = n <=> q = r /\ t = p
          BY <5>1 DEF Nonces
        <5>5. \A q \in Roots, t \in Positions :
                uses'[[root |-> q, pos |-> t]] > 0
                <=> uses[[root |-> q, pos |-> t]] > 0 \/ (q = r /\ t = p)
          BY <5>2, <5>3, <5>4
        <5>6. \A np \in Roots \X Positions :
                uses'[[root |-> np[1], pos |-> np[2]]] > 0
                <=> uses[[root |-> np[1], pos |-> np[2]]] > 0 \/ np = <<r, p>>
          BY <5>5
        <5>7. ~(uses[[root |-> r, pos |-> p]] > 0)
          BY <5>1, <5>3
        <5> QED
          BY SMTT(30), ZenonT(20), <5>6, <5>7
      <4>6. Life(r) \in {"kept", "spending"}
        BY <2>3, <4>4, LifeCases DEF LifeFacts
      <4>7. Life(r)' \in {"spending", "dead"}
        <5>1. LifeFacts'
          BY LifeCases, PTL
        <5>2. ~InFlash(r)' /\ r \in Nat /\ r > 0
          BY <1>2, <1>8, <4>4, Round2Removes DEF InFlash, s, Roots
        <5>3. musig.round1.root # r
          BY <4>4, <4>6, LifeCases DEF LifeFacts
        <5>4. musig'.round1.root # r
          BY <1>2, <2>4, <5>2, <5>3 DEF IInv, TypeOK
        <5>5. ~(r > Len(roots'))
          BY <2>2, <4>6, LifeCases DEF LifeFacts
        <5> QED
          BY <5>1, <5>2, <5>4, <5>5 DEF LifeFacts, Lifecycle!Stages
      <4>8. /\ [q \in Roots |-> Life(q)][r] \in {"kept", "spending"}
            /\ [q \in Roots |-> Life(q)]'[r] \in {"spending", "dead"}
        BY <4>6, <4>7
      <4> QED
        BY <4>5, <4>8 DEF Lifecycle!MaySign
    <3> QED
      BY <3>1, <3>2
  <2> QED
    BY <2>5, <2>6
<1>9. CASE Commit
  <2>1. UNCHANGED <<roots, uses>>
    BY <1>9 DEF Commit
  <2>2. CASE musig.round1 = Zero
    BY <1>3, <1>4, <1>9, <2>1, <2>2 DEF Commit, Leave
  <2>3. CASE musig.round1 # Zero
    <3>1. musig.round1.id \in Ids
      BY <2>3 DEF IInv, TypeOK, Sessions
    <3>2. \A i \in Slots : nvm'[i] \in {nvm[i], Zero}
      BY <1>9, <2>3, <3>1, PopErases DEF Commit, IInv, TypeOK
    <3>3. musig' = musig /\ Len(roots') >= Len(roots)
      BY <1>2, <1>9, <2>1, <2>3 DEF Commit
    <3> QED
      BY <1>3, <2>1, <3>2, <3>3, MayShrink
  <2> QED
    BY <2>2, <2>3
<1>10. CASE CommitWrite
  <2> DEFINE k == SlotFor(nvm)
  <2>1. /\ k \in Slots /\ musig' = ZeroState /\ UNCHANGED <<roots, uses>>
        /\ \A i \in Slots : nvm'[i] = IF i = k THEN musig.round1 ELSE nvm[i]
    BY <1>10, SlotForIsSlot DEF CommitWrite, Leave, IInv, TypeOK
  <2> HIDE DEF k
  <2>2. LifeFacts /\ LifeFacts'
    BY LifeCases, PTL
  <2>3. ASSUME NEW r \in Roots PROVE Lifecycle!May(Life(r), Life(r)')
    <3>1. InFlash(r)' => InFlash(r) \/ musig.round1.root = r
      BY <2>1 DEF InFlash
    <3>2. musig'.round1.root # r /\ musig'.round2.root # r
      BY <1>2, <2>1
    <3>3. musig.round1.root = r => InFlash(r)'
      BY <2>1 DEF InFlash
    <3> QED
      BY <2>1, <2>2, <3>1, <3>2, <3>3 DEF LifeFacts, Lifecycle!May, Lifecycle!Stages
  <2> QED
    BY <1>3, <2>1, <2>3
<1>11. CASE Interrupt
  BY <1>3, <1>4, <1>11 DEF Interrupt, Leave
<1>12. CASE UNCHANGED vars
  <2>1. UNCHANGED <<nvm, musig, roots, uses>>
    BY <1>12 DEF vars
  <2>2. Len(roots') >= Len(roots)
    BY <1>2, <2>1
  <2> QED
    BY <1>3, <2>1, <2>2, MayShrink
<1> QED
  BY <1>5, <1>6, <1>7, <1>8, <1>9, <1>10, <1>11, <1>12 DEF Next

\* The initial state is an initial state of the life cycle.
LEMMA InitSimulation == Init => Lifecycle!Init
<1> SUFFICES ASSUME Init PROVE Lifecycle!Init
  OBVIOUS
<1>1. IInv /\ Len(roots) = 0
  BY InitIInv DEF Init
<1>2. \A r \in Roots : Life(r) = "undrawn"
  BY <1>1, LifeCases DEF LifeFacts, Roots
<1>3. \A r \in Roots, p \in Positions : ~(uses[[root |-> r, pos |-> p]] > 0)
  BY DEF Init, Nonces
<1> QED
  BY <1>2, <1>3 DEF Lifecycle!Init

\* The session store implements the life cycle of its roots: a root that was
\* spent, evicted or lost with the signing state never comes back.
THEOREM Refinement == Spec => RefinesLifecycle
<1>1. Init => Lifecycle!Init
  BY InitSimulation
<1>2. IInv /\ IInv' /\ [Next]_vars => [Lifecycle!Next]_(Lifecycle!vars)
  BY StepSimulation
<1> QED
  BY <1>1, <1>2, Invariance, PTL DEF Spec, RefinesLifecycle, Lifecycle!Spec
=============================================================================
