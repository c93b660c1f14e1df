---------------------------- MODULE MusigSessions ----------------------------
(***************************************************************************)
(* The psbt-level MuSig2 sessions: musig_sessions.c, driven by the two     *)
(* rounds of musig_signing.c.  A session is an identifier (a hash of the   *)
(* transaction and the wallet policy) and a root of randomness, from which *)
(* the nonce of every (key expression, input) pair is derived.  Round 1    *)
(* creates it in volatile memory and stores it in flash once all pubnonces *)
(* have been returned; round 2 moves it out of flash before it signs.      *)
(* Flash survives a power loss, a reset of the I/O and an aborted command; *)
(* the volatile signing state, on the stack of the handler, does not.      *)
(***************************************************************************)
EXTENDS Naturals, Sequences

CONSTANTS Ids,                   \* session identifiers
          NoId,                  \* the all-zero identifier of a free slot
          MAX_N_MUSIG_SESSIONS,  \* slots in flash
          NPairs,                \* (key expression, input) pairs to process
          MaxRoots               \* bound: random roots drawn in a behaviour

ASSUME ConstantsOK ==
  /\ NoId \notin Ids
  /\ MAX_N_MUSIG_SESSIONS \in Nat \ {0}
  /\ NPairs \in Nat \ {0}
  /\ MaxRoots \in Nat

VARIABLES nvm,     \* N_musig_storage.sessions
          musig,   \* musig_signing_state_t of the running command
          flow,    \* the running command: its step, session and PSBT
          roots,   \* roots[r] is the session that the root r was drawn for
          issued,  \* the pubnonces returned to the client so far
          uses     \* uses[n]: partial signatures returned with the nonce n

vars == <<nvm, musig, flow, roots, issued, uses>>

Slots == 0 .. MAX_N_MUSIG_SESSIONS - 1
Positions == 0 .. NPairs - 1
Roots == 1 .. MaxRoots
Sessions == [id : Ids, root : Roots]
Zero == [id |-> NoId, root |-> 0]
ZeroState == [round1 |-> Zero, round2 |-> Zero]

\* compute_rand_i_j hashes the root with the position: distinct arguments give
\* distinct nonces, so the arguments stand for the nonce.  The mutant leaves
\* the position out of the hash.
Nonces == [root : Roots, pos : Positions]
RandIgnoresPosition(session, pos) == [root |-> session.root, pos |-> 0]
compute_rand_i_j(session, pos) == [root |-> session.root, pos |-> pos]

Idle == [pc |-> "idle", id |-> NoId, psbt |-> 0, pos |-> 0]

TypeOK ==
  /\ nvm \in [Slots -> Sessions \cup {Zero}]
  /\ musig \in [round1 : Sessions \cup {Zero}, round2 : Sessions \cup {Zero}]
  /\ flow \in [pc : {"idle", "signing", "storing"}, id : Ids \cup {NoId},
               psbt : Roots \cup {0}, pos : 0 .. NPairs]
  /\ roots \in Seq(Ids) /\ Len(roots) <= MaxRoots
  /\ issued \subseteq Nonces
  /\ uses \in [Nonces -> Nat]

Init ==
  /\ nvm = [i \in Slots |-> Zero]
  /\ musig = ZeroState
  /\ flow = Idle
  /\ roots = <<>>
  /\ issued = {}
  /\ uses = [n \in Nonces |-> 0]
-----------------------------------------------------------------------------
Holding(store, id) == {i \in Slots : store[i].id = id}
First(S) == CHOOSE i \in S : \A j \in S : i <= j

\* Mutant of musigsession_pop: the slot is copied and not erased.
PopKeeps(store, id) == store

\* musigsession_pop: the first slot with this identifier is zeroed.
musigsession_pop(store, id) ==
  IF Holding(store, id) = {} THEN store
  ELSE [store EXCEPT ![First(Holding(store, id))] = Zero]

\* Second half of musigsession_store: the first free slot, or slot 0.
SlotFor(store) ==
  LET free == {i \in Slots : store[i] = Zero}
  IN  IF free = {} THEN 0 ELSE First(free)

\* The command ends, and its volatile signing state with it.
Leave == flow' = Idle /\ musig' = ZeroState
Advance == flow' = [flow EXCEPT !.pos = @ + 1]

\* The command starts: musigsession_initialize_signing_state.  The client adds
\* to the PSBT the pubnonces that one earlier round 1 returned for this
\* transaction (psbt is its root), or none (psbt = 0).
Begin(id, psbt) ==
  /\ flow.pc = "idle"
  /\ psbt # 0 => /\ psbt <= Len(roots) /\ roots[psbt] = id
                 /\ \E n \in issued : n.root = psbt
  /\ flow' = [pc |-> "signing", id |-> id, psbt |-> psbt, pos |-> 0]
  /\ musig' = ZeroState
  /\ UNCHANGED <<nvm, roots, issued, uses>>

\* compute_musig_per_input_info computes the session identifier.  When a key
\* cannot be fetched it returns -1, which its boolean result turns into
\* success, and the structure is read uninitialized: the stack holds what an
\* earlier call left there, the identifier of its session included.
SessionId(sid, key_fetched) == key_fetched => sid = flow.id

\* produce_and_yield_pubnonce: the pubnonce leaves the device before the
\* answer of the client is awaited, which may not come (ok is FALSE).
Round1(sid, key_fetched, ok) ==
  LET fresh == musig.round1.id # sid
      session == IF fresh THEN [id |-> sid, root |-> Len(roots) + 1]
                          ELSE musig.round1
  IN  /\ flow.pc = "signing" /\ flow.psbt = 0 /\ flow.pos < NPairs
      /\ SessionId(sid, key_fetched)
      /\ fresh => Len(roots) < MaxRoots
      /\ nvm' = musigsession_pop(nvm, sid)
      /\ roots' = IF fresh THEN Append(roots, sid) ELSE roots
      /\ issued' = issued \cup {compute_rand_i_j(session, flow.pos)}
      /\ IF ok THEN Advance /\ musig' = [musig EXCEPT !.round1 = session]
               ELSE Leave
      /\ UNCHANGED uses

\* The session of round 2: already in volatile memory, or found in flash.
Loaded(sid) == musig.round2.id = sid
Available(sid) == Loaded(sid) \/ Holding(nvm, sid) # {}
Round2Session(sid) ==
  IF Loaded(sid) THEN musig.round2 ELSE nvm[First(Holding(nvm, sid))]

Round2Guard(sid, key_fetched) ==
  /\ flow.pc = "signing" /\ flow.psbt # 0 /\ flow.pos < NPairs
  /\ SessionId(sid, key_fetched)

\* The PSBT has the pubnonce that its round 1 returned for this position.
HasPubnonce ==
  compute_rand_i_j([id |-> flow.id, root |-> flow.psbt], flow.pos) \in issued

\* sign_sighash_musig_and_yield gives up before it touches the store: the PSBT
\* has no pubnonce of ours here, or no session has this identifier.
Round2Missing(sid, key_fetched) ==
  /\ Round2Guard(sid, key_fetched)
  /\ ~HasPubnonce \/ ~Available(sid)
  /\ Leave
  /\ UNCHANGED <<nvm, roots, issued, uses>>

\* Mutant of Round2: the session is deleted only once signing has succeeded.
Round2PopsLate(sid, key_fetched, outcome) ==
  LET session == Round2Session(sid)
      n == compute_rand_i_j(session, flow.pos)
  IN  /\ Round2Guard(sid, key_fetched)
      /\ HasPubnonce
      /\ Available(sid)
      /\ nvm' = IF outcome = "yielded" THEN musigsession_pop(nvm, sid) ELSE nvm
      /\ uses' = IF outcome = "failed" THEN uses
                                       ELSE [uses EXCEPT ![n] = @ + 1]
      /\ IF outcome = "yielded"
         THEN Advance /\ musig' = [musig EXCEPT !.round2 = session]
         ELSE Leave
      /\ UNCHANGED <<roots, issued>>

\* sign_sighash_musig_and_yield after musigsession_round2_initialize: it fails
\* (a cosigner's pubnonce is missing, the signature cannot be made), or the
\* partial signature leaves the device and the client answers or does not.
Round2(sid, key_fetched, outcome) ==
  LET session == Round2Session(sid)
      n == compute_rand_i_j(session, flow.pos)
  IN  /\ Round2Guard(sid, key_fetched)
      /\ HasPubnonce
      /\ Available(sid)
      /\ nvm' = IF Loaded(sid) THEN nvm ELSE musigsession_pop(nvm, sid)
      /\ uses' = IF outcome = "failed" THEN uses
                                       ELSE [uses EXCEPT ![n] = @ + 1]
      /\ IF outcome = "yielded"
         THEN Advance /\ musig' = [musig EXCEPT !.round2 = session]
         ELSE Leave
      /\ UNCHANGED <<roots, issued>>

\* The signing flow succeeded.  musigsession_commit has nothing to store, or
\* musigsession_store first deletes a session with the same identifier...
Commit ==
  /\ flow.pc = "signing" /\ flow.pos = NPairs
  /\ IF musig.round1 = Zero
     THEN Leave /\ UNCHANGED nvm
     ELSE /\ flow' = [flow EXCEPT !.pc = "storing"]
          /\ nvm' = musigsession_pop(nvm, musig.round1.id)
          /\ UNCHANGED musig
  /\ UNCHANGED <<roots, issued, uses>>

\* ... and then writes the new one, in a second write to flash.
CommitWrite ==
  /\ flow.pc = "storing"
  /\ nvm' = [nvm EXCEPT ![SlotFor(nvm)] = musig.round1]
  /\ Leave
  /\ UNCHANGED <<roots, issued, uses>>

\* Power is lost, the I/O is reset or another step of the command fails.
Interrupt ==
  /\ flow.pc # "idle"
  /\ Leave
  /\ UNCHANGED <<nvm, roots, issued, uses>>

Next ==
  \/ \E id \in Ids, psbt \in Roots \cup {0} : Begin(id, psbt)
  \/ \E sid \in Ids, key_fetched, ok \in BOOLEAN :
       Round1(sid, key_fetched, ok)
  \/ \E sid \in Ids, key_fetched \in BOOLEAN : Round2Missing(sid, key_fetched)
  \/ \E sid \in Ids, key_fetched \in BOOLEAN,
        outcome \in {"failed", "unanswered", "yielded"} :
       Round2(sid, key_fetched, outcome)
  \/ Commit
  \/ CommitWrite
  \/ Interrupt

Spec == Init /\ [][Next]_vars
-----------------------------------------------------------------------------
\* No nonce ever makes two partial signatures: not across rejected, failed or
\* interrupted commands, nor when the client replays a PSBT, nor when the
\* session identifier is read uninitialized (musigsession_pop erases the slot
\* before musigsession_round2_initialize returns the session).
NonceUsedOnce == \A n \in Nonces : uses[n] <= 1

\* A session that flash still holds has signed nothing: at a power loss the
\* store never holds a root that was already in use.
StoredIsUnused ==
  \A i \in Slots : nvm[i] # Zero =>
    \A p \in Positions : uses[compute_rand_i_j(nvm[i], p)] = 0

\* Flash holds at most one session of a transaction: musigsession_store pops
\* before it writes, so a restarted round 1 supersedes the earlier one.
OneSessionPerId ==
  \A i, j \in Slots : nvm[i] # Zero /\ nvm[i].id = nvm[j].id => i = j

\* doc/musig.md, phase 2: the device is to verify that the pubnonce in the PSBT
\* is the one it recomputes.  Stated of every partial signature returned.
PubnonceMatches ==
  [][\A n \in Nonces : uses'[n] # uses[n] => n.root = flow.psbt]_vars

Life(r) ==
  CASE r > Len(roots) -> "undrawn"
    [] \E i \in Slots : nvm[i].root = r -> "kept"
    [] r <= Len(roots) /\ musig.round2.root = r -> "spending"
    [] r <= Len(roots) /\ musig.round1.root = r -> "fresh"
    [] OTHER -> "dead"

Lifecycle == INSTANCE NonceLifecycle WITH
  life <- [r \in Roots |-> Life(r)],
  used <- {np \in Roots \X Positions : uses[[root |-> np[1], pos |-> np[2]]] > 0}

\* The store implements the life cycle of a root: drawn, kept, spent, dead, and
\* never back; every nonce of it signs at most once, while it is spent.
RefinesLifecycle == Lifecycle!Spec

\* The inductive invariant.  A root lives in one place only; what lives in
\* flash or was drawn by round 1 has signed nothing; what round 2 holds has
\* signed for no position at or after the current one.
Live(s) == s # Zero => /\ s.root <= Len(roots)
                       /\ roots[s.root] = s.id
Unspent(s, from) ==
  s # Zero => \A p \in Positions : p >= from =>
                uses[compute_rand_i_j(s, p)] = 0
Apart(s, t) == s # Zero => s.root # t.root

IInv ==
  /\ TypeOK
  /\ \A i \in Slots : Live(nvm[i]) /\ Unspent(nvm[i], 0)
  /\ \A i, j \in Slots : i # j => Apart(nvm[i], nvm[j])
  /\ \A i \in Slots : Apart(nvm[i], musig.round1) /\ Apart(nvm[i], musig.round2)
  /\ Apart(musig.round1, musig.round2)
  /\ Live(musig.round1) /\ Unspent(musig.round1, 0)
  /\ Live(musig.round2) /\ Unspent(musig.round2, flow.pos)
  /\ \A n \in Nonces : n.root > Len(roots) => uses[n] = 0
  /\ NonceUsedOnce
  /\ flow.pc = "storing" =>
       /\ musig.round1 # Zero
       /\ \A i \in Slots : nvm[i].id # musig.round1.id
  /\ OneSessionPerId
=============================================================================
