----------------------- MODULE WalletCommands_proofs -----------------------
(***************************************************************************)
(* Proofs about the wallet commands, for all policies, seeds, limits and   *)
(* clients: an hmac is given only for what the user approved, an address   *)
(* only for such a policy or for a default one whose key can be exported,  *)
(* and a key leaves the device unseen only at or below an account.         *)
(***************************************************************************)
EXTENDS WalletCommands, SequenceTheorems, FiniteSetTheorems, TLAPS

Entry(s, h, j) == [info |-> h.root[j], type |-> key_type(s, h.root[j])]
EntrySet == [info : AllInfos, type : {"unspendable", "internal", "external"}]
Screens ==
  {PolicyScreen(h, t) : h \in AllHeaders, t \in Templates}
    \cup {KeyScreen(j, e) : j \in Nat, e \in EntrySet}

-----------------------------------------------------------------------------
(* The strengthening: what holds at each stage of a handler. *)

\* Some key of the policy is this seed's.
Owned(s, h) == \E j \in DOMAIN h.root : Derives(s, h.root[j]) /\ h.root[j].has_origin

\* The template was read from the text, as far as the text goes.
TemplateRead(h, t) == t \in Templates /\ (Filled(h) => t = h.text.body)

\* The keys fetched are the first of the header's, each with its type.
Collected == \A j \in 1 .. Len(infos) : infos[j] = Entry(seed, hdr, j)

\* The screens approved are the first of the review.
Shown ==
  /\ approved \in Seq(Screens) /\ Len(approved) <= hdr.n_keys + 1
  /\ \A j \in 1 .. Len(approved) : approved[j] = Review(hdr, tpl, infos)[j]

\* What a registration says of its policy.
Reviewed(r) ==
  /\ r.review = Review(r.header, r.tpl, Entries(r.seed, r.header))
  /\ HasKeys(r.header) /\ TemplateRead(r.header, r.tpl) /\ Owned(r.seed, r.header)

\* The policy may be used: it is a default one, or registered under this seed.
Accessed ==
  /\ is_default => is_wallet_policy_standard(seed, hdr, tpl)
  /\ ~is_default => \E r \in registered : r.seed = seed /\ r.header = hdr

TypeInv ==
  /\ lib \in {"bagl", "nbgl"} /\ seed \in Seeds /\ swap \in BOOLEAN
  /\ pc \in Pcs /\ sw \in Words /\ hdr \in AllHeaders
  /\ tpl \in Templates \cup {Partial} /\ is_default \in BOOLEAN /\ disturbed \in BOOLEAN
  /\ infos \in Seq(EntrySet) /\ Len(infos) <= MAX_N_KEYS_IN_WALLET_POLICY

\* The request, and what is still empty.
RequestInv ==
  /\ pc \in {"policy", "access", "script", "show"} => req \in AddressRequests
  /\ pc = "template" => req.cmd = "register" \/ req \in AddressRequests
  /\ pc \in {"policy", "template", "checks"} => infos = <<>>
  /\ pc \in {"policy", "template", "checks", "keys", "access"} => approved = <<>> /\ ~is_default

PolicyInv == pc \in {"checks", "keys", "review", "access", "script", "show"} => TemplateRead(hdr, tpl)

KeysInv ==
  pc \in {"keys", "review"} =>
    /\ hdr.n_keys <= MAX_N_KEYS_IN_WALLET_POLICY /\ Len(infos) <= hdr.n_keys
    /\ infos # <<>> => HasKeys(hdr)
    /\ Collected

ReviewInv ==
  pc = "review" => Len(infos) = hdr.n_keys /\ infos # <<>> /\ Owned(seed, hdr) /\ Shown

ToldInv ==
  /\ \A r \in registered : Reviewed(r)
  /\ \A hmac \in hmacs : hmac # Stack =>
       \E r \in registered : hmac = compute_wallet_hmac(r.seed, get_policy_wallet_id(r.header))

AccessInv == pc \in {"script", "show"} => Accessed

ExportInv ==
  pc = "export" => /\ req.display \in {0, 1}
                   /\ req.display = 1 \/ is_path_safe_for_pubkey_export(req.path)

\* What a response says; there is none before the handler is done.
ReplyInv ==
  /\ pc # "done" => reply = None
  /\ GivesAddress => /\ reply = Address /\ TemplateRead(hdr, tpl) /\ Accessed
                     /\ req.display => approved = <<AddressScreen>>
  /\ reply # None /\ reply[1] = "xpub" =>
       is_path_safe_for_pubkey_export(req.path) \/ approved = <<PubkeyScreen(req.path)>>

IInv ==
  /\ TypeInv /\ RequestInv /\ PolicyInv /\ KeysInv /\ ReviewInv
  /\ ToldInv /\ AccessInv /\ ExportInv /\ ReplyInv

-----------------------------------------------------------------------------
(* Lists of keys and of screens *)

\* The entry of a key of the header is an entry.
LEMMA EntryTyped ==
  ASSUME NEW s, NEW h \in AllHeaders, NEW j \in 1 .. Len(h.root)
  PROVE  Entry(s, h, j) \in EntrySet
  <1>1. h.root[j] \in AllInfos
    BY HeadersAssumption, ElementOfSeq
  <1>2. key_type(s, h.root[j]) \in {"unspendable", "internal", "external"}
    BY DEF key_type
  <1> QED BY <1>1, <1>2 DEF Entry, EntrySet

\* The entries of a header are a list of as many entries as it has keys.
LEMMA EntriesList ==
  ASSUME NEW s, NEW h \in AllHeaders
  PROVE  /\ Entries(s, h) \in Seq(EntrySet) /\ Len(Entries(s, h)) = Len(h.root)
         /\ \A j \in 1 .. Len(h.root) : Entries(s, h)[j] = Entry(s, h, j)
  <1>1. Len(h.root) \in Nat
    BY HeadersAssumption, LenProperties
  <1>2. \A j \in 1 .. Len(h.root) : Entries(s, h)[j] = Entry(s, h, j)
    BY DEF Entries, Entry
  <1>3. Entries(s, h) \in [1 .. Len(h.root) -> EntrySet]
    BY <1>2, EntryTyped DEF Entries, Entry
  <1>4. Entries(s, h) \in Seq(EntrySet) /\ Len(Entries(s, h)) = Len(h.root)
    BY <1>1, <1>3
  <1> QED BY <1>2, <1>4

\* The review of a list of entries: the policy, and then each entry in order.
LEMMA ReviewList ==
  ASSUME NEW h \in AllHeaders, NEW t \in Templates, NEW es \in Seq(EntrySet)
  PROVE  /\ Review(h, t, es) \in Seq(Screens) /\ Len(Review(h, t, es)) = Len(es) + 1
         /\ Review(h, t, es)[1] = PolicyScreen(h, t)
         /\ \A j \in 1 .. Len(es) : Review(h, t, es)[j + 1] = KeyScreen(j, es[j])
  <1> DEFINE keys == [j \in 1 .. Len(es) |-> KeyScreen(j, es[j])]
             first == <<PolicyScreen(h, t)>>
  <1>1. Len(es) \in Nat
    BY LenProperties
  <1>2. \A j \in 1 .. Len(es) : KeyScreen(j, es[j]) \in Screens
    <2> TAKE j \in 1 .. Len(es)
    <2>1. es[j] \in EntrySet /\ j \in Nat
      BY ElementOfSeq, <1>1
    <2> QED BY <2>1 DEF Screens
  <1>3. keys \in [1 .. Len(es) -> Screens]
    BY <1>2
  <1>4. keys \in Seq(Screens) /\ Len(keys) = Len(es)
    BY <1>1, <1>3
  <1>5. PolicyScreen(h, t) \in Screens
    BY DEF Screens
  <1>6. first \in Seq(Screens) /\ Len(first) = 1 /\ first[1] = PolicyScreen(h, t)
    BY <1>5
  <1>7. Review(h, t, es) = first \o keys
    BY DEF Review
  <1> HIDE DEF first, keys
  <1>8. /\ first \o keys \in Seq(Screens) /\ Len(first \o keys) = 1 + Len(es)
        /\ \A i \in 1 .. 1 + Len(es) :
             (first \o keys)[i] = IF i <= 1 THEN first[i] ELSE keys[i - 1]
    <2>1. /\ first \o keys \in Seq(Screens) /\ Len(first \o keys) = Len(first) + Len(keys)
          /\ \A i \in 1 .. Len(first) + Len(keys) :
               (first \o keys)[i] = IF i <= Len(first) THEN first[i] ELSE keys[i - Len(first)]
      <3>1. first \in Seq(Screens) /\ keys \in Seq(Screens)
        BY <1>4, <1>6
      <3> QED BY <3>1, ConcatProperties, Zenon
    <2> QED BY <2>1, <1>4, <1>6
  <1>9. (first \o keys)[1] = PolicyScreen(h, t)
    BY <1>1, <1>6, <1>8
  <1>10. ASSUME NEW j \in 1 .. Len(es) PROVE (first \o keys)[j + 1] = KeyScreen(j, es[j])
    <2>1. (first \o keys)[j + 1] = keys[j]
      BY <1>1, <1>8
    <2> QED BY <2>1 DEF keys
  <1> QED BY <1>1, <1>7, <1>8, <1>9, <1>10

\* Entries that were collected to the end are the entries of the header.
LEMMA AllCollected ==
  ASSUME NEW s, NEW h \in AllHeaders, NEW es \in Seq(EntrySet), Len(es) = Len(h.root),
         \A j \in 1 .. Len(es) : es[j] = Entry(s, h, j)
  PROVE  es = Entries(s, h)
  BY EntriesList, SeqEqual

\* What the buffer holds is the template that the header commits to, if the text fills it.
LEMMA ReadFromText ==
  ASSUME NEW h \in AllHeaders, NEW t \in Readings(h.text, h.len), t # Partial
  PROVE  TemplateRead(h, t)
  <1>1. h.text.body \in Templates \cup {Partial}
    BY HeadersAssumption
  <1>2. CASE h.text.body # Partial
    BY <1>1, <1>2 DEF Readings, TemplateRead
  <1>3. CASE h.text.body = Partial /\ h.len > h.text.size + h.text.extra
    <2>1. t \in Templates
      BY <1>3 DEF Readings
    <2>2. ~Filled(h)
      BY <1>3, HeadersAssumption DEF Filled
    <2> QED BY <2>1, <2>2 DEF TemplateRead
  <1>4. CASE h.text.body = Partial /\ ~(h.len > h.text.size + h.text.extra)
    BY <1>4 DEF Readings
  <1> QED BY <1>2, <1>3, <1>4

-----------------------------------------------------------------------------
(* A command that is refused, and the device at rest *)

\* The invariant holds at first.
LEMMA InitInv == Init => IInv
  <1> SUFFICES ASSUME Init PROVE IInv
    OBVIOUS
  <1>1. infos = <<>> /\ infos \in Seq(EntrySet) /\ Len(infos) = 0
    BY EmptySeq DEF Init
  <1>2. TypeInv
    <2>1. hdr \in AllHeaders
      BY DEF Init, AllHeaders
    <2>2. pc \in Pcs /\ sw \in Words
      BY DEF Init, Pcs, Words
    <2>3. lib \in {"bagl", "nbgl"} /\ seed \in Seeds /\ swap \in BOOLEAN
      BY DEF Init
    <2>4. tpl \in Templates \cup {Partial} /\ is_default \in BOOLEAN /\ disturbed \in BOOLEAN
      BY DEF Init
    <2> QED BY <1>1, <2>1, <2>2, <2>3, <2>4, LimitAssumption DEF TypeInv
  <1>3. ToldInv
    BY DEF Init, ToldInv
  <1>4. pc = "idle" /\ reply = None
    BY DEF Init
  <1> QED
    BY <1>2, <1>3, <1>4 DEF IInv, RequestInv, PolicyInv, KeysInv, ReviewInv, AccessInv,
       ExportInv, ReplyInv, GivesAddress

\* What was told stays true as long as nothing more is told.
LEMMA ToldKept == ToldInv /\ UNCHANGED told => ToldInv'
  BY DEF ToldInv, told

\* Nothing but the types is left to hold when the handler ends without data, or is not there.
LEMMA AtRest ==
  ASSUME ToldInv, TypeInv', pc' \in {"done", "ended", "off", "idle", "fingerprint"},
         reply' = None, UNCHANGED told
  PROVE  IInv'
  <1>1. ToldInv'
    BY ToldKept
  <1>2. /\ RequestInv' /\ PolicyInv' /\ KeysInv' /\ ReviewInv' /\ AccessInv' /\ ExportInv'
    BY DEF RequestInv, PolicyInv, KeysInv, ReviewInv, AccessInv, ExportInv
  <1>3. ReplyInv'
    BY DEF ReplyInv, GivesAddress
  <1> QED BY <1>1, <1>2, <1>3 DEF IInv

\* A new request: nothing is left of an earlier one.
LEMMA BeginKeeps ==
  ASSUME IInv, NEW r, NEW h \in AllHeaders, NEW sent \in BOOLEAN, NEW early \in BOOLEAN,
         NEW accepted \in BOOLEAN, NEW where \in Pcs, NEW word \in Words,
         Begin(r, h, sent, early, accepted, where, word)
  PROVE  /\ TypeInv' /\ ToldInv' /\ reply' = None /\ infos' = <<>> /\ approved' = <<>>
         /\ ~is_default'
         /\ pc' = "done" \/ (accepted /\ pc' = where /\ req' = r)
  <1>1. infos' = <<>> /\ infos' \in Seq(EntrySet) /\ Len(infos') = 0
    BY EmptySeq DEF Begin
  <1>2. hdr' \in AllHeaders
    BY DEF Begin, AllHeaders
  <1>3. pc' \in Pcs /\ sw' \in Words
    BY DEF Begin, Pcs, Words
  <1>4. tpl' \in Templates \cup {Partial} /\ is_default' \in BOOLEAN /\ disturbed' \in BOOLEAN
    BY DEF Begin
  <1>5. lib' \in {"bagl", "nbgl"} /\ seed' \in Seeds /\ swap' \in BOOLEAN
    BY DEF Begin, device, IInv, TypeInv
  <1>6. TypeInv'
    BY <1>1, <1>2, <1>3, <1>4, <1>5, LimitAssumption DEF TypeInv
  <1>7. ToldInv'
    BY ToldKept DEF Begin, IInv
  <1>8. pc' = "done" \/ (accepted /\ pc' = where /\ req' = r)
    BY DEF Begin
  <1> QED BY <1>1, <1>6, <1>7, <1>8 DEF Begin

\* REGISTER_WALLET begins.
LEMMA RegisterWalletKeeps ==
  ASSUME IInv, NEW h \in Headers, NEW sent \in BOOLEAN, RegisterWallet(h, sent)
  PROVE  IInv'
  <1> DEFINE r == [cmd |-> "register", header |-> h]
  <1>1. h \in AllHeaders
    BY DEF AllHeaders
  <1>2. /\ TypeInv' /\ ToldInv' /\ reply' = None /\ infos' = <<>> /\ approved' = <<>>
        /\ ~is_default' /\ (pc' = "done" \/ (pc' = "template" /\ req' = r))
    <2>1. read_wallet_policy_header(h) \in BOOLEAN
      BY DEF read_wallet_policy_header
    <2>2. Begin(r, h, sent, TRUE, read_wallet_policy_header(h), "template", "INCORRECT_DATA")
      BY DEF RegisterWallet
    <2>3. "template" \in Pcs /\ "INCORRECT_DATA" \in Words
      BY DEF Pcs, Words
    <2> QED BY <1>1, <2>1, <2>2, <2>3, BeginKeeps
  <1> QED
    BY SMTT(30), ZenonT(20), <1>2
       DEF IInv, RequestInv, PolicyInv, KeysInv, ReviewInv, AccessInv, ExportInv,
       ReplyInv, GivesAddress

\* GET_WALLET_ADDRESS begins.
LEMMA GetWalletAddressKeeps ==
  ASSUME IInv, NEW r \in AddressRequests, NEW sent \in BOOLEAN, GetWalletAddress(r, sent)
  PROVE  IInv'
  <1> DEFINE allowed == r.change \in {0, 1} /\ r.index < BIP32_FIRST_HARDENED_CHILD
  <1>1. /\ TypeInv' /\ ToldInv' /\ reply' = None /\ infos' = <<>> /\ approved' = <<>>
        /\ ~is_default' /\ (pc' = "done" \/ (pc' = "policy" /\ req' = r))
    <2>1. NoHeader \in AllHeaders /\ allowed \in BOOLEAN /\ (r.change \notin {0, 1}) \in BOOLEAN
      BY DEF AllHeaders
    <2>2. Begin(r, NoHeader, sent, r.change \notin {0, 1}, allowed, "policy", "INCORRECT_DATA")
      BY DEF GetWalletAddress
    <2>3. "policy" \in Pcs /\ "INCORRECT_DATA" \in Words
      BY DEF Pcs, Words
    <2> QED BY <2>1, <2>2, <2>3, BeginKeeps, ZenonT(40)
  <1>2. pc' = "policy" => req' \in AddressRequests'
    <2>1. UNCHANGED hmacs
      BY DEF GetWalletAddress, Begin, told
    <2> QED BY <1>1, <2>1 DEF AddressRequests
  <1> QED
    BY <1>1, <1>2 DEF IInv, RequestInv, PolicyInv, KeysInv, ReviewInv, AccessInv, ExportInv,
       ReplyInv, GivesAddress

\* GET_EXTENDED_PUBKEY begins.
LEMMA GetExtendedPubkeyKeeps ==
  ASSUME IInv, NEW r \in PubkeyRequests, NEW sent \in BOOLEAN, GetExtendedPubkey(r, sent)
  PROVE  IInv'
  <1> DEFINE malformed == r.display > 1 \/ Len(r.path) > MAX_BIP32_PATH_STEPS
             allowed == ~malformed /\ (r.display = 1 \/ is_path_safe_for_pubkey_export(r.path))
             word == IF malformed THEN "INCORRECT_DATA" ELSE "NOT_SUPPORTED"
  <1>1. /\ TypeInv' /\ ToldInv' /\ reply' = None /\ infos' = <<>> /\ approved' = <<>>
        /\ ~is_default' /\ (pc' = "done" \/ (allowed /\ pc' = "export" /\ req' = r))
    <2>1. NoHeader \in AllHeaders /\ malformed \in BOOLEAN /\ allowed \in BOOLEAN
      BY DEF AllHeaders
    <2>2. Begin(r, NoHeader, sent, malformed, allowed, "export", word)
      BY DEF GetExtendedPubkey
    <2>3. "export" \in Pcs /\ word \in Words
      BY DEF Pcs, Words
    <2> HIDE DEF malformed, allowed, word
    <2> QED BY <2>1, <2>2, <2>3, BeginKeeps
  <1>2. pc' = "export" => /\ req'.display \in {0, 1}
                          /\ req'.display = 1 \/ is_path_safe_for_pubkey_export(req'.path)
    <2> HIDE DEF malformed
    <2>1. ~malformed => r.display \in {0, 1}
      BY DEF malformed, PubkeyRequests
    <2> QED BY <1>1, <2>1
  <1>3. ExportInv'
    BY <1>2 DEF ExportInv
  <1> HIDE DEF malformed, allowed, word
  <1> QED
    BY <1>1, <1>3 DEF IInv, RequestInv, PolicyInv, KeysInv, ReviewInv, AccessInv,
       ReplyInv, GivesAddress

\* GET_MASTER_FINGERPRINT begins.
LEMMA GetMasterFingerprintKeeps ==
  ASSUME IInv, GetMasterFingerprint
  PROVE  IInv'
  <1>1. NoHeader \in AllHeaders /\ "fingerprint" \in Pcs /\ "none" \in Words
    BY DEF AllHeaders, Pcs, Words
  <1>2. TypeInv' /\ reply' = None /\ pc' \in {"done", "fingerprint"}
    BY <1>1, BeginKeeps DEF GetMasterFingerprint
  <1>3. UNCHANGED told
    BY DEF GetMasterFingerprint, Begin
  <1> QED BY <1>2, <1>3, AtRest DEF IInv

-----------------------------------------------------------------------------
(* The steps of a handler *)

\* SEND_SW ends the handler without data.
LEMMA Ends ==
  ASSUME TypeInv, NEW word \in Words, Refuse(word) \/ Fails(word)
  PROVE  /\ pc' = "done" /\ pc' \in Pcs /\ sw' \in Words /\ disturbed' \in BOOLEAN
         /\ reply' = None
  BY DEF Refuse, Return, Fails, Pcs, TypeInv

\* The handler goes on, and has still sent nothing.
LEMMA GoesOn ==
  ASSUME IInv, pc # "done", NEW where \in Pcs, Continue(where)
  PROVE  /\ pc' = where /\ pc' \in Pcs /\ sw' \in Words /\ disturbed' \in BOOLEAN
         /\ reply' = None
  BY DEF Continue, IInv, TypeInv, ReplyInv

\* Without data, nothing is said.
LEMMA Silent == ASSUME reply' = None PROVE ReplyInv'
  BY DEF ReplyInv, GivesAddress

\* The types of the locals stay.
LEMMA TypesKept ==
  ASSUME TypeInv, UNCHANGED device, pc' \in Pcs, sw' \in Words, disturbed' \in BOOLEAN,
         hdr' \in AllHeaders, tpl' \in Templates \cup {Partial}, is_default' \in BOOLEAN,
         infos' \in Seq(EntrySet), Len(infos') <= MAX_N_KEYS_IN_WALLET_POLICY
  PROVE  TypeInv'
  <1>1. lib' \in {"bagl", "nbgl"} /\ seed' \in Seeds /\ swap' \in BOOLEAN
    BY DEF device, TypeInv
  <1> QED BY <1>1 DEF TypeInv

\* The serialized policy arrives.
LEMMA PolicyReceivedKeeps == ASSUME IInv, PolicyReceived PROVE IInv'
  <1>1. /\ pc = "policy" /\ req \in AddressRequests /\ infos = <<>> /\ approved = <<>>
        /\ ~is_default
    BY DEF PolicyReceived, IInv, RequestInv
  <1>2. hdr' \in AllHeaders
    <2>1. req.id \in Ids
      BY <1>1 DEF AddressRequests
    <2>2. req.id.header \in AllHeaders
      BY <2>1 DEF AllHeaders
    <2>3. hdr \in AllHeaders
      BY DEF IInv, TypeInv
    <2> QED BY <2>2, <2>3 DEF PolicyReceived
  <1>3. /\ UNCHANGED device /\ UNCHANGED told /\ req' = req /\ tpl' = tpl /\ infos' = infos
        /\ is_default' = is_default /\ approved' = approved
    BY DEF PolicyReceived
  <1>4. Refuse("INCORRECT_DATA") \/ Fails("INCORRECT_DATA") \/ Continue("template")
    BY DEF PolicyReceived
  <1>5. "INCORRECT_DATA" \in Words /\ "template" \in Pcs
    BY DEF Words, Pcs
  <1>6. /\ pc' \in {"done", "template"} /\ pc' \in Pcs /\ sw' \in Words /\ disturbed' \in BOOLEAN
        /\ reply' = None
    BY <1>1, <1>4, <1>5, Ends, GoesOn DEF IInv
  <1>7. TypeInv'
    BY <1>2, <1>3, <1>6, TypesKept DEF IInv, TypeInv
  <1>8. CASE pc' = "done"
    BY <1>3, <1>6, <1>7, <1>8, AtRest DEF IInv
  <1>9. CASE pc' = "template"
    <2>1. RequestInv'
      <3>1. AddressRequests' = AddressRequests
        BY <1>3 DEF AddressRequests, told
      <3> QED BY <1>1, <1>3, <1>9, <3>1 DEF RequestInv
    <2>2. PolicyInv' /\ KeysInv' /\ ReviewInv' /\ AccessInv' /\ ExportInv'
      BY <1>9 DEF PolicyInv, KeysInv, ReviewInv, AccessInv, ExportInv
    <2> QED BY <1>3, <1>6, <1>7, <2>1, <2>2, ToldKept, Silent DEF IInv
  <1> QED BY <1>6, <1>8, <1>9

\* The template arrives and is parsed.
LEMMA TemplateReceivedKeeps == ASSUME IInv, TemplateReceived PROVE IInv'
  <1>1. /\ pc = "template" /\ (req.cmd = "register" \/ req \in AddressRequests)
        /\ infos = <<>> /\ approved = <<>> /\ ~is_default
    BY DEF TemplateReceived, IInv, RequestInv
  <1>2. /\ UNCHANGED device /\ UNCHANGED told /\ req' = req /\ hdr' = hdr /\ infos' = infos
        /\ is_default' = is_default /\ approved' = approved
    BY DEF TemplateReceived
  <1>3. /\ "INCORRECT_DATA" \in Words /\ "checks" \in Pcs /\ "access" \in Pcs
    BY DEF Words, Pcs
  <1>4. CASE Fails("INCORRECT_DATA") /\ UNCHANGED tpl
    <2>1. TypeInv'
      BY <1>2, <1>3, <1>4, Ends, TypesKept DEF IInv, TypeInv
    <2> QED BY <1>2, <1>3, <1>4, <2>1, Ends, AtRest DEF IInv
  <1>5. ASSUME tpl' = Partial, Refuse("INCORRECT_DATA") PROVE IInv'
    <2>1. TypeInv'
      BY <1>2, <1>3, <1>5, Ends, TypesKept DEF IInv, TypeInv
    <2> QED BY <1>2, <1>3, <1>5, <2>1, Ends, AtRest DEF IInv
  <1>6. ASSUME NEW t \in Readings(hdr.text, hdr.len), t # Partial, tpl' = t,
               Continue(IF req.cmd = "register" THEN "checks" ELSE "access")
        PROVE  IInv'
    <2>1. hdr \in AllHeaders
      BY DEF IInv, TypeInv
    <2>2. TemplateRead(hdr, t)
      BY <1>6, <2>1, ReadFromText
    <2>3. /\ pc' = IF req.cmd = "register" THEN "checks" ELSE "access"
          /\ pc' \in Pcs /\ sw' \in Words /\ disturbed' \in BOOLEAN /\ reply' = None
      BY <1>1, <1>3, <1>6, GoesOn
    <2>4. TypeInv'
      BY <1>2, <1>6, <2>2, <2>3, TypesKept DEF IInv, TypeInv, TemplateRead
    <2>5. AddressRequests' = AddressRequests
      BY <1>2 DEF AddressRequests, told
    <2>6. RequestInv'
      BY <1>1, <1>2, <2>3, <2>5 DEF RequestInv
    <2>7. PolicyInv'
      BY <1>2, <1>6, <2>2 DEF PolicyInv
    <2>8. KeysInv' /\ ReviewInv' /\ AccessInv' /\ ExportInv'
      BY <2>3 DEF KeysInv, ReviewInv, AccessInv, ExportInv
    <2> QED BY <1>2, <2>3, <2>4, <2>6, <2>7, <2>8, ToldKept, Silent DEF IInv
  <1> QED BY <1>4, <1>5, <1>6 DEF TemplateReceived

\* The checks of REGISTER_WALLET before it fetches the keys.
LEMMA RegisterChecksKeeps == ASSUME IInv, RegisterChecks PROVE IInv'
  <1>1. /\ pc = "checks" /\ infos = <<>> /\ approved = <<>> /\ ~is_default
    BY DEF RegisterChecks, IInv, RequestInv
  <1>2. /\ UNCHANGED device /\ UNCHANGED told /\ req' = req /\ hdr' = hdr /\ tpl' = tpl
        /\ infos' = infos /\ is_default' = is_default /\ approved' = approved
    BY DEF RegisterChecks, locals
  <1>3. "INCORRECT_DATA" \in Words /\ "NOT_SUPPORTED" \in Words /\ "keys" \in Pcs
    BY DEF Words, Pcs
  <1>4. \/ Refuse("INCORRECT_DATA") \/ Refuse("NOT_SUPPORTED") \/ Fails("NOT_SUPPORTED")
        \/ FitsArrays /\ Continue("keys")
    BY DEF RegisterChecks
  <1>5. /\ pc' \in Pcs /\ sw' \in Words /\ disturbed' \in BOOLEAN /\ reply' = None
        /\ pc' = "done" \/ (FitsArrays /\ pc' = "keys")
    BY <1>1, <1>3, <1>4, Ends, GoesOn DEF IInv
  <1>6. TypeInv'
    BY <1>2, <1>5, TypesKept DEF IInv, TypeInv
  <1>7. CASE pc' = "done"
    BY <1>2, <1>5, <1>6, <1>7, AtRest DEF IInv
  <1>8. CASE FitsArrays /\ pc' = "keys"
    <2>1. RequestInv' /\ ReviewInv' /\ AccessInv' /\ ExportInv'
      BY <1>1, <1>2, <1>8 DEF RequestInv, ReviewInv, AccessInv, ExportInv
    <2>2. PolicyInv'
      BY <1>1, <1>2 DEF IInv, PolicyInv
    <2>3. KeysInv'
      <3>1. hdr.n_keys \in Nat
        BY HeadersAssumption DEF IInv, TypeInv
      <3>2. Len(infos) = 0
        BY <1>1
      <3>3. hdr.n_keys <= MAX_N_KEYS_IN_WALLET_POLICY /\ Len(infos) <= hdr.n_keys
        BY <1>8, <3>1, <3>2 DEF FitsArrays
      <3>4. Collected'
        BY <1>2, <3>2 DEF Collected
      <3> QED BY <1>1, <1>2, <3>3, <3>4 DEF KeysInv
    <2> QED BY <1>2, <1>5, <1>6, <2>1, <2>2, <2>3, ToldKept, Silent DEF IInv
  <1> QED BY <1>5, <1>7, <1>8

\* One more key of a registration arrives.
LEMMA KeyReceivedKeeps == ASSUME IInv, KeyReceived PROVE IInv'
  <1> DEFINE info == hdr.root[Len(infos) + 1]
             accepted == /\ HasKeys(hdr) /\ parse_policy_map_key_info(info, hdr.version)
                         /\ info.version = BIP32_PUBKEY_VERSION
  <1>1. pc = "keys" /\ Len(infos) < hdr.n_keys
    BY DEF KeyReceived
  <1>2. /\ UNCHANGED device /\ UNCHANGED told /\ req' = req /\ hdr' = hdr /\ tpl' = tpl
        /\ is_default' = is_default /\ approved' = approved
    BY DEF KeyReceived
  <1>3. "INCORRECT_DATA" \in Words /\ "BAD_STATE" \in Words /\ "keys" \in Pcs
    BY DEF Words, Pcs
  <1>4. \/ /\ Refuse("INCORRECT_DATA") \/ Fails("INCORRECT_DATA") \/ Fails("BAD_STATE")
           /\ infos' = infos
        \/ HasKeys(hdr) /\ infos' = Fetched(info) /\ Continue("keys")
    <2> HIDE DEF info
    <2> QED BY DEF KeyReceived, info
  <1>5. CASE /\ Refuse("INCORRECT_DATA") \/ Fails("INCORRECT_DATA") \/ Fails("BAD_STATE")
             /\ infos' = infos
    <2>1. /\ pc' = "done" /\ pc' \in Pcs /\ sw' \in Words /\ disturbed' \in BOOLEAN
          /\ reply' = None
      BY <1>3, <1>5, Ends DEF IInv
    <2>2. TypeInv'
      BY <1>2, <1>5, <2>1, TypesKept DEF IInv, TypeInv
    <2> QED BY <1>2, <2>1, <2>2, AtRest DEF IInv
  <1>6. CASE HasKeys(hdr) /\ infos' = Fetched(info) /\ Continue("keys")
    <2> DEFINE n == Len(infos)
    <2>1. /\ hdr \in AllHeaders /\ infos \in Seq(EntrySet) /\ n \in Nat /\ hdr.n_keys \in Nat
          /\ hdr.n_keys <= MAX_N_KEYS_IN_WALLET_POLICY
      BY <1>1, HeadersAssumption, LenProperties DEF IInv, TypeInv, KeysInv
    <2>2. n + 1 \in 1 .. Len(hdr.root)
      BY <1>1, <1>6, <2>1 DEF HasKeys
    <2>3. Entry(seed, hdr, n + 1) \in EntrySet
      BY <2>1, <2>2, EntryTyped
    <2>4. infos' = Append(infos, Entry(seed, hdr, n + 1))
      BY <1>6 DEF Fetched, Entry
    <2>5. /\ infos' \in Seq(EntrySet) /\ infos' # <<>> /\ Len(infos') = n + 1
          /\ \A j \in 1 .. n : infos'[j] = infos[j]
          /\ infos'[n + 1] = Entry(seed, hdr, n + 1)
      BY SMTT(90), ZenonT(40), <2>1, <2>3, <2>4, AppendProperties
    <2>6. /\ pc' = "keys" /\ pc' \in Pcs /\ sw' \in Words /\ disturbed' \in BOOLEAN
          /\ reply' = None
      BY <1>1, <1>3, <1>6, GoesOn
    <2>7. Len(infos') <= hdr.n_keys /\ Len(infos') <= MAX_N_KEYS_IN_WALLET_POLICY
      BY <1>1, <2>1, <2>5, LimitAssumption
    <2>8. TypeInv'
      BY <1>2, <2>5, <2>6, <2>7, TypesKept DEF IInv, TypeInv
    <2>9. Collected'
      <3>1. seed' = seed /\ hdr' = hdr
        BY <1>2 DEF device
      <3>2. \A j \in 1 .. n : infos[j] = Entry(seed, hdr, j)
        BY <1>1 DEF IInv, KeysInv, Collected
      <3>3. \A j \in 1 .. n + 1 : infos'[j] = Entry(seed, hdr, j)
        <4> TAKE j \in 1 .. n + 1
        <4>1. j \in 1 .. n \/ j = n + 1
          BY <2>1
        <4> QED BY <4>1, <2>5, <3>2
      <3>4. \A j \in 1 .. Len(infos') : infos'[j] = Entry(seed', hdr', j)
        BY <2>5, <3>1, <3>3
      <3> QED BY <3>4 DEF Collected, Entry
    <2>10. KeysInv'
      BY <1>2, <1>6, <2>1, <2>7, <2>9 DEF KeysInv, HasKeys
    <2>11. RequestInv' /\ ReviewInv' /\ AccessInv' /\ ExportInv'
      BY <1>1, <1>2, <2>6 DEF IInv, RequestInv, ReviewInv, AccessInv, ExportInv
    <2>12. PolicyInv'
      BY <1>1, <1>2 DEF IInv, PolicyInv
    <2> QED BY <1>2, <2>6, <2>8, <2>10, <2>11, <2>12, ToldKept, Silent DEF IInv
  <1> QED BY <1>4, <1>5, <1>6

\* If one of the keys fetched is internal, the policy has a key of this seed.
LEMMA InternalIsOwned ==
  ASSUME IInv, pc = "keys", Len(infos) = hdr.n_keys, EnoughInternal
  PROVE  infos # <<>> /\ Owned(seed, hdr)
  <1>1. Internal # {}
    <2>1. CASE Internal = {}
      <3>1. Cardinality(Internal) = 0
        BY <2>1, FS_EmptySet
      <3> QED BY <3>1 DEF EnoughInternal, n_internal_keys
    <2> QED BY <2>1
  <1>2. PICK j \in DOMAIN infos : infos[j].type = "internal"
    BY <1>1 DEF Internal
  <1>3. infos \in Seq(EntrySet) /\ hdr \in AllHeaders
    BY DEF IInv, TypeInv
  <1>4. j \in 1 .. Len(infos)
    BY <1>2, <1>3, LenProperties
  <1>5. infos # <<>>
    BY <1>2
  <1>6. HasKeys(hdr) /\ infos[j] = Entry(seed, hdr, j)
    BY <1>4, <1>5 DEF IInv, KeysInv, Collected
  <1>7. j \in DOMAIN hdr.root
    <2>1. DOMAIN hdr.root = 1 .. Len(hdr.root)
      BY <1>3, HeadersAssumption, LenProperties
    <2> QED BY <1>4, <1>6, <2>1 DEF HasKeys
  <1>8. key_type(seed, hdr.root[j]) = "internal"
    BY <1>2, <1>6 DEF Entry
  <1>9. HasOriginOf(seed, hdr.root[j]) /\ Derives(seed, hdr.root[j])
    BY <1>8 DEF key_type
  <1> QED BY <1>5, <1>7, <1>9 DEF Owned, HasOriginOf

\* All keys of a registration have arrived.
LEMMA KeysReceivedKeeps == ASSUME IInv, KeysReceived PROVE IInv'
  <1>1. pc = "keys" /\ Len(infos) = hdr.n_keys /\ approved = <<>>
    BY DEF KeysReceived, IInv, RequestInv
  <1>2. /\ UNCHANGED device /\ UNCHANGED told /\ req' = req /\ hdr' = hdr /\ tpl' = tpl
        /\ infos' = infos /\ is_default' = is_default /\ approved' = approved
    BY DEF KeysReceived, locals
  <1>3. "INCORRECT_DATA" \in Words /\ "review" \in Pcs
    BY DEF Words, Pcs
  <1>4. /\ pc' \in Pcs /\ sw' \in Words /\ disturbed' \in BOOLEAN /\ reply' = None
        /\ pc' = "done" \/ (EnoughInternal /\ pc' = "review")
    <2>1. Refuse("INCORRECT_DATA") \/ (EnoughInternal /\ Continue("review"))
      BY DEF KeysReceived
    <2> QED BY <1>1, <1>3, <2>1, Ends, GoesOn DEF IInv
  <1>5. TypeInv'
    BY <1>2, <1>4, TypesKept DEF IInv, TypeInv
  <1>6. CASE pc' = "done"
    BY <1>2, <1>4, <1>5, <1>6, AtRest DEF IInv
  <1>7. CASE EnoughInternal /\ pc' = "review"
    <2>1. infos # <<>> /\ Owned(seed, hdr)
      BY <1>1, <1>7, InternalIsOwned
    <2>2. seed' = seed
      BY <1>2 DEF device
    <2>3. Shown'
      <3>1. approved' \in Seq(Screens) /\ Len(approved') = 0
        BY <1>1, <1>2, EmptySeq
      <3>2. hdr'.n_keys \in Nat
        BY HeadersAssumption, <1>5 DEF TypeInv
      <3>3. approved' \in Seq(Screens) /\ Len(approved') <= hdr'.n_keys + 1
        BY <3>1, <3>2
      <3>4. \A j \in 1 .. Len(approved') : FALSE
        BY <3>1
      <3> QED BY <3>3, <3>4 DEF Shown
    <2>4. ReviewInv'
      BY <1>1, <1>2, <2>1, <2>2, <2>3 DEF ReviewInv
    <2>5. KeysInv'
      BY <1>1, <1>2, <2>2 DEF IInv, KeysInv, Collected
    <2>6. RequestInv' /\ AccessInv' /\ ExportInv'
      BY <1>7 DEF RequestInv, AccessInv, ExportInv
    <2>7. PolicyInv'
      BY <1>1, <1>2 DEF IInv, PolicyInv
    <2> QED BY <1>2, <1>4, <1>5, <2>4, <2>5, <2>6, <2>7, ToldKept, Silent DEF IInv
  <1> QED BY <1>4, <1>6, <1>7

\* A screen of a registration is approved or rejected.
LEMMA ReviewScreenKeeps == ASSUME IInv, ReviewScreen PROVE IInv'
  <1>1. /\ pc = "review" /\ Len(infos) = hdr.n_keys /\ infos # <<>> /\ Owned(seed, hdr)
        /\ Shown /\ ~ReviewOver
    BY DEF ReviewScreen, IInv, ReviewInv
  <1>2. /\ UNCHANGED device /\ UNCHANGED told /\ req' = req /\ hdr' = hdr /\ tpl' = tpl
        /\ infos' = infos /\ is_default' = is_default
    BY DEF ReviewScreen
  <1>3. "DENY" \in Words /\ "review" \in Pcs
    BY DEF Words, Pcs
  <1>4. /\ pc' \in Pcs /\ sw' \in Words /\ disturbed' \in BOOLEAN /\ reply' = None
        /\ pc' = "done" \/ (approved' = Approve /\ pc' = "review")
    <2>1. Refuse("DENY") \/ (approved' = Approve /\ Continue("review"))
      BY DEF ReviewScreen
    <2> QED BY <1>1, <1>3, <2>1, Ends, GoesOn DEF IInv
  <1>5. TypeInv'
    BY <1>2, <1>4, TypesKept DEF IInv, TypeInv
  <1>6. CASE pc' = "done"
    BY <1>2, <1>4, <1>5, <1>6, AtRest DEF IInv
  <1>7. CASE approved' = Approve /\ pc' = "review"
    <2> DEFINE all == Review(hdr, tpl, infos)
               n == Len(approved)
    <2>1. /\ hdr \in AllHeaders /\ tpl \in Templates /\ infos \in Seq(EntrySet)
          /\ hdr.n_keys \in Nat
      BY <1>1, HeadersAssumption DEF IInv, TypeInv, PolicyInv, TemplateRead
    <2>2. /\ all \in Seq(Screens) /\ Len(all) = hdr.n_keys + 1
          /\ all[1] = PolicyScreen(hdr, tpl)
          /\ \A j \in 1 .. hdr.n_keys : all[j + 1] = KeyScreen(j, infos[j])
      BY <1>1, <2>1, ReviewList
    <2> HIDE DEF all
    <2>3. /\ approved \in Seq(Screens) /\ n \in Nat /\ n < hdr.n_keys + 1
          /\ \A j \in 1 .. n : approved[j] = all[j]
      <3>1. approved \in Seq(Screens) /\ n <= hdr.n_keys + 1 /\ n # hdr.n_keys + 1
        BY <1>1 DEF Shown, ReviewOver
      <3>2. n \in Nat
        BY <3>1, LenProperties
      <3>3. \A j \in 1 .. n : approved[j] = all[j]
        BY <1>1 DEF Shown, all
      <3> QED BY <2>1, <3>1, <3>2, <3>3
    <2>4. /\ approved' \in Seq(Screens) /\ Len(approved') <= hdr.n_keys + 1
          /\ \A j \in 1 .. Len(approved') : approved'[j] = all[j]
      <3>1. CASE lib = "nbgl"
        <4>1. approved' = all
          BY <1>7, <3>1 DEF Approve, all
        <4> QED BY <2>1, <2>2, <4>1
      <3>2. CASE lib # "nbgl"
        <4>1. approved' = Append(approved, all[n + 1])
          <5>1. CASE approved = <<>>
            <6>1. n = 0
              BY <5>1
            <6>2. approved' = Append(approved, PolicyScreen(hdr, tpl))
              BY <1>7, <3>2, <5>1 DEF Approve
            <6> QED BY <2>2, <6>1, <6>2
          <5>2. CASE approved # <<>>
            <6>1. n \in 1 .. hdr.n_keys
              BY <2>1, <2>3, <5>2, EmptySeq
            <6>2. approved' = Append(approved, KeyScreen(n, infos[n]))
              BY <1>7, <3>2, <5>2 DEF Approve
            <6> QED BY <2>2, <6>1, <6>2
          <5> QED BY <5>1, <5>2
        <4>2. n + 1 \in 1 .. Len(all)
          BY <2>1, <2>2, <2>3
        <4>3. all[n + 1] \in Screens
          BY <2>2, <4>2, ElementOfSeq
        <4>4. /\ approved' \in Seq(Screens) /\ Len(approved') = n + 1
              /\ \A j \in 1 .. n : approved'[j] = approved[j]
              /\ approved'[n + 1] = all[n + 1]
          BY <2>3, <4>1, <4>3, AppendProperties
        <4>5. Len(approved') <= hdr.n_keys + 1
          BY <2>1, <2>3, <4>4
        <4>6. \A j \in 1 .. Len(approved') : approved'[j] = all[j]
          <5> TAKE j \in 1 .. Len(approved')
          <5>1. j \in 1 .. n \/ j = n + 1
            BY <2>3, <4>4
          <5> QED BY <2>3, <4>4, <5>1
        <4> QED BY <4>4, <4>5, <4>6
      <3> QED BY <3>1, <3>2
    <2>5. seed' = seed
      BY <1>2 DEF device
    <2>6. Shown'
      BY <1>2, <2>4 DEF Shown, all
    <2>7. ReviewInv'
      BY <1>1, <1>2, <2>5, <2>6 DEF ReviewInv
    <2>8. KeysInv'
      BY <1>1, <1>2, <2>5 DEF IInv, KeysInv, Collected
    <2>9. RequestInv' /\ AccessInv' /\ ExportInv'
      BY <1>7 DEF RequestInv, AccessInv, ExportInv
    <2>10. PolicyInv'
      BY <1>1, <1>2 DEF IInv, PolicyInv
    <2> QED BY <1>2, <1>4, <1>5, <2>7, <2>8, <2>9, <2>10, ToldKept, Silent DEF IInv
  <1> QED BY <1>4, <1>6, <1>7

\* The registration is over: the user approved the whole review.
LEMMA RegisteredKeeps == ASSUME IInv, Registered PROVE IInv'
  <1> DEFINE id == get_policy_wallet_id(hdr)
             Record(hmac) == [hmac |-> hmac, seed |-> seed, header |-> hdr, tpl |-> tpl,
                              review |-> approved]
  <1>1. /\ pc = "review" /\ Len(infos) = hdr.n_keys /\ infos # <<>> /\ Owned(seed, hdr)
        /\ Shown /\ ReviewOver
    BY DEF Registered, IInv, ReviewInv
  <1>2. /\ UNCHANGED device /\ req' = req /\ hdr' = hdr /\ tpl' = tpl /\ infos' = infos
        /\ is_default' = is_default /\ approved' = approved
    BY DEF Registered, locals
  <1>3. PICK hmac \in {compute_wallet_hmac(seed, id), Stack} :
          /\ Return("OK", <<"registered", id, hmac>>)
          /\ hmacs' = hmacs \cup {hmac}
          /\ registered' = registered \cup {Record(hmac)}
    BY DEF Registered
  <1>4. /\ pc' = "done" /\ pc' \in Pcs /\ sw' \in Words /\ disturbed' \in BOOLEAN
        /\ reply' = <<"registered", id, hmac>>
    BY <1>3 DEF Return, Pcs, Words, IInv, TypeInv
  <1>5. TypeInv'
    BY <1>2, <1>4, TypesKept DEF IInv, TypeInv
  <1>6. /\ hdr \in AllHeaders /\ tpl \in Templates /\ infos \in Seq(EntrySet)
        /\ TemplateRead(hdr, tpl) /\ HasKeys(hdr) /\ Collected
    BY <1>1 DEF IInv, TypeInv, PolicyInv, KeysInv, TemplateRead
  <1>7. infos = Entries(seed, hdr)
    BY <1>1, <1>6, AllCollected DEF HasKeys, Collected
  <1>8. approved = Review(hdr, tpl, infos)
    <2>1. /\ Review(hdr, tpl, infos) \in Seq(Screens)
          /\ Len(Review(hdr, tpl, infos)) = hdr.n_keys + 1
      BY <1>1, <1>6, ReviewList
    <2>2. /\ approved \in Seq(Screens) /\ Len(approved) = hdr.n_keys + 1
          /\ \A j \in 1 .. Len(approved) : approved[j] = Review(hdr, tpl, infos)[j]
      BY <1>1 DEF Shown, ReviewOver
    <2> QED BY <2>1, <2>2, SeqEqual
  <1>9. Reviewed(Record(hmac))
    BY <1>1, <1>6, <1>7, <1>8 DEF Reviewed
  <1>10. ToldInv'
    <2>1. \A r \in registered' : Reviewed(r)
      BY <1>3, <1>9 DEF IInv, ToldInv
    <2>2. ASSUME NEW h \in hmacs', h # Stack
          PROVE  \E r \in registered' : h = compute_wallet_hmac(r.seed, get_policy_wallet_id(r.header))
      <3>1. CASE h \in hmacs
        BY <1>3, <2>2, <3>1 DEF IInv, ToldInv
      <3>2. CASE h = hmac
        <4>1. h = compute_wallet_hmac(seed, id)
          BY <1>3, <2>2, <3>2
        <4>2. Record(hmac) \in registered' /\ Record(hmac).seed = seed /\ Record(hmac).header = hdr
          BY <1>3
        <4> QED BY <4>1, <4>2
      <3> QED BY <1>3, <3>1, <3>2
    <2> QED BY <2>1, <2>2 DEF ToldInv
  <1>11. ReplyInv'
    <2>1. reply'[1] = "registered" /\ "registered" # "address" /\ "registered" # "xpub"
      BY <1>4
    <2> QED BY <1>4, <2>1 DEF ReplyInv, GivesAddress
  <1>12. RequestInv' /\ PolicyInv' /\ KeysInv' /\ ReviewInv' /\ AccessInv' /\ ExportInv'
    BY <1>4 DEF RequestInv, PolicyInv, KeysInv, ReviewInv, AccessInv, ExportInv
  <1> QED BY <1>5, <1>10, <1>11, <1>12 DEF IInv

\* An hmac that is accepted under this seed was given for this policy under this seed.
LEMMA HmacIsOfRegistration ==
  ASSUME IInv, req \in AddressRequests, req.hmac # NoHmac, HmacAccepted, IdMatches
  PROVE  \E r \in registered : r.seed = seed /\ r.header = hdr
  <1>1. req.hmac \in hmacs \cup {NoHmac, Stack}
    BY DEF AddressRequests
  <1>2. req.hmac = <<seed, req.id>>
    BY DEF HmacAccepted, check_wallet_hmac, compute_wallet_hmac
  <1>3. req.hmac # Stack
    <2>1. Len(req.hmac) = 2 /\ Len(Stack) = 1
      BY <1>2 DEF Stack
    <2> QED BY <2>1
  <1>4. PICK r \in registered : req.hmac = compute_wallet_hmac(r.seed, get_policy_wallet_id(r.header))
    BY <1>1, <1>3 DEF IInv, ToldInv
  <1>5. <<seed, req.id>> = <<r.seed, get_policy_wallet_id(r.header)>>
    BY <1>2, <1>4 DEF compute_wallet_hmac
  <1>6. r.seed = seed /\ get_policy_wallet_id(r.header) = get_policy_wallet_id(hdr)
    BY <1>5 DEF IdMatches
  <1>7. r.header = hdr
    BY <1>6 DEF get_policy_wallet_id, Bytes
  <1> QED BY <1>4, <1>6, <1>7

\* What holds on at the steps that make and show an address.
LEMMA ScriptStage ==
  ASSUME IInv, TypeInv', pc' \in {"script", "show"}, reply' = None, UNCHANGED told, req' = req,
         req \in AddressRequests, TemplateRead(hdr, tpl), hdr' = hdr, tpl' = tpl, Accessed'
  PROVE  IInv'
  <1>1. AddressRequests' = AddressRequests
    BY DEF AddressRequests, told
  <1>2. RequestInv'
    BY <1>1 DEF RequestInv
  <1>3. PolicyInv'
    BY DEF PolicyInv
  <1>4. KeysInv' /\ ReviewInv' /\ AccessInv' /\ ExportInv'
    BY DEF KeysInv, ReviewInv, AccessInv, ExportInv
  <1> QED BY <1>2, <1>3, <1>4, ToldKept, Silent DEF IInv

\* GET_WALLET_ADDRESS without an hmac.
LEMMA DefaultAccessKeeps == ASSUME IInv, DefaultAccess PROVE IInv'
  <1>1. pc = "access" /\ req \in AddressRequests /\ TemplateRead(hdr, tpl)
    BY DEF DefaultAccess, IInv, RequestInv, PolicyInv
  <1>2. /\ UNCHANGED device /\ UNCHANGED told /\ req' = req /\ hdr' = hdr /\ tpl' = tpl
        /\ infos' = infos /\ approved' = approved
    BY DEF DefaultAccess
  <1>3. "INCORRECT_DATA" \in Words /\ "script" \in Pcs
    BY DEF Words, Pcs
  <1>4. /\ pc' \in Pcs /\ sw' \in Words /\ disturbed' \in BOOLEAN /\ reply' = None
        /\ pc' = "done" \/ (DefaultAllowed /\ is_default' = DefaultAllowed /\ pc' = "script")
    <2>1. \/ Refuse("INCORRECT_DATA") \/ Fails("INCORRECT_DATA")
          \/ DefaultAllowed /\ is_default' = DefaultAllowed /\ Continue("script")
      BY DEF DefaultAccess
    <2> QED BY <1>1, <1>3, <2>1, Ends, GoesOn DEF IInv
  <1>5. is_default' \in BOOLEAN
    <2>1. is_default' = is_default \/ is_default' = DefaultAllowed
      BY DEF DefaultAccess
    <2>2. DefaultAllowed \in BOOLEAN
      BY DEF DefaultAllowed
    <2>3. is_default \in BOOLEAN
      BY DEF IInv, TypeInv
    <2> QED BY <2>1, <2>2, <2>3
  <1>6. TypeInv'
    BY <1>2, <1>4, <1>5, TypesKept DEF IInv, TypeInv
  <1>7. CASE pc' = "done"
    BY <1>2, <1>4, <1>6, <1>7, AtRest DEF IInv
  <1>8. CASE DefaultAllowed /\ is_default' = DefaultAllowed /\ pc' = "script"
    <2>1. is_default'
      BY <1>8
    <2>2. is_wallet_policy_standard(seed, hdr, tpl) /\ seed' = seed
      BY <1>2, <1>8 DEF DefaultAllowed, device
    <2>3. Accessed'
      BY <1>2, <2>1, <2>2 DEF Accessed
    <2> QED BY <1>1, <1>2, <1>4, <1>6, <1>8, <2>3, ScriptStage
  <1> QED BY <1>4, <1>7, <1>8

\* GET_WALLET_ADDRESS with an hmac.
LEMMA RegisteredAccessKeeps == ASSUME IInv, RegisteredAccess PROVE IInv'
  <1>1. /\ pc = "access" /\ req \in AddressRequests /\ TemplateRead(hdr, tpl)
        /\ ~is_default /\ req.hmac # NoHmac /\ reply = None
    BY DEF RegisteredAccess, IInv, RequestInv, PolicyInv, ReplyInv
  <1>2. /\ UNCHANGED device /\ UNCHANGED told /\ req' = req /\ hdr' = hdr /\ tpl' = tpl
        /\ infos' = infos /\ is_default' = is_default /\ approved' = approved
    BY DEF RegisteredAccess, locals
  <1>3. /\ "INCORRECT_DATA" \in Words /\ "SIGNATURE_FAIL" \in Words /\ "FAIL_SWAP" \in Words
        /\ "script" \in Pcs /\ "ended" \in Pcs
    BY DEF Words, Pcs
  <1>4. /\ pc' \in Pcs /\ sw' \in Words /\ disturbed' \in BOOLEAN /\ reply' = None
        /\ pc' \in {"done", "ended"} \/ (HmacAccepted /\ IdMatches /\ pc' = "script")
    <2>1. \/ Refuse("INCORRECT_DATA") \/ Refuse("SIGNATURE_FAIL")
          \/ pc' = "ended" /\ sw' = "FAIL_SWAP" /\ UNCHANGED <<reply, disturbed>>
          \/ HmacAccepted /\ IdMatches /\ Continue("script")
      BY DEF RegisteredAccess
    <2>2. CASE Refuse("INCORRECT_DATA") \/ Refuse("SIGNATURE_FAIL")
      BY <1>3, <2>2, Ends DEF IInv
    <2>3. CASE pc' = "ended" /\ sw' = "FAIL_SWAP" /\ UNCHANGED <<reply, disturbed>>
      BY <1>1, <1>3, <2>3 DEF IInv, TypeInv
    <2>4. CASE HmacAccepted /\ IdMatches /\ Continue("script")
      BY <1>1, <1>3, <2>4, GoesOn
    <2> QED BY <2>1, <2>2, <2>3, <2>4
  <1>5. TypeInv'
    BY <1>2, <1>4, TypesKept DEF IInv, TypeInv
  <1>6. CASE pc' \in {"done", "ended"}
    BY <1>2, <1>4, <1>5, <1>6, AtRest DEF IInv
  <1>7. CASE HmacAccepted /\ IdMatches /\ pc' = "script"
    <2>1. \E r \in registered : r.seed = seed /\ r.header = hdr
      BY <1>1, <1>7, HmacIsOfRegistration
    <2>2. Accessed'
      BY <1>1, <1>2, <2>1 DEF Accessed, device, told
    <2> QED BY <1>1, <1>2, <1>4, <1>5, <1>7, <2>2, ScriptStage
  <1> QED BY <1>4, <1>6, <1>7

\* An address is returned: the policy was accessed, and shown if the client asked for it.
LEMMA AddressReturned ==
  ASSUME IInv, pc \in {"script", "show"}, UNCHANGED <<device, told>>, req' = req, hdr' = hdr,
         tpl' = tpl, infos' = infos, is_default' = is_default, Return("OK", Address),
         req.display => approved' = <<AddressScreen>>
  PROVE  IInv'
  <1>1. /\ pc' = "done" /\ pc' \in Pcs /\ sw' \in Words /\ disturbed' \in BOOLEAN
        /\ reply' = Address
    BY DEF Return, Pcs, Words, IInv, TypeInv
  <1>2. TypeInv'
    BY <1>1, TypesKept DEF IInv, TypeInv
  <1>3. TemplateRead(hdr, tpl) /\ Accessed
    BY DEF IInv, PolicyInv, AccessInv
  <1>4. Address' = Address /\ AddressScreen' = AddressScreen
    BY DEF Address, AddressScreen
  <1>5. Accessed'
    BY <1>3 DEF Accessed, device, told
  <1>6. reply'[1] = "address"
    BY <1>1 DEF Address
  <1>7. ReplyInv'
    <2>1. /\ reply' = Address' /\ TemplateRead(hdr', tpl') /\ Accessed'
          /\ req'.display => approved' = <<AddressScreen'>>
      BY <1>1, <1>3, <1>4, <1>5
    <2>2. reply'[1] # "xpub" /\ pc' = "done"
      BY <1>1, <1>6
    <2> QED BY <2>1, <2>2 DEF ReplyInv
  <1>8. RequestInv' /\ PolicyInv' /\ KeysInv' /\ ReviewInv' /\ AccessInv' /\ ExportInv'
    BY <1>1 DEF RequestInv, PolicyInv, KeysInv, ReviewInv, AccessInv, ExportInv
  <1> QED BY <1>2, <1>7, <1>8, ToldKept DEF IInv

\* The script of the address is made.
LEMMA ScriptMadeKeeps == ASSUME IInv, ScriptMade PROVE IInv'
  <1>1. /\ pc = "script" /\ req \in AddressRequests /\ TemplateRead(hdr, tpl) /\ Accessed
    BY DEF ScriptMade, IInv, RequestInv, PolicyInv, AccessInv
  <1>2. /\ UNCHANGED device /\ UNCHANGED told /\ req' = req /\ hdr' = hdr /\ tpl' = tpl
        /\ infos' = infos /\ is_default' = is_default /\ approved' = approved
    BY DEF ScriptMade, locals
  <1>3. "BAD_STATE" \in Words /\ "show" \in Pcs
    BY DEF Words, Pcs
  <1>4. CASE Refuse("BAD_STATE") \/ Fails("BAD_STATE")
    <2>1. /\ pc' = "done" /\ pc' \in Pcs /\ sw' \in Words /\ disturbed' \in BOOLEAN
          /\ reply' = None
      BY <1>3, <1>4, Ends DEF IInv
    <2>2. TypeInv'
      BY <1>2, <2>1, TypesKept DEF IInv, TypeInv
    <2> QED BY <1>2, <2>1, <2>2, AtRest DEF IInv
  <1>5. CASE Continue("show")
    <2>1. /\ pc' = "show" /\ pc' \in Pcs /\ sw' \in Words /\ disturbed' \in BOOLEAN
          /\ reply' = None
      BY <1>1, <1>3, <1>5, GoesOn
    <2>2. TypeInv'
      BY <1>2, <2>1, TypesKept DEF IInv, TypeInv
    <2>3. Accessed'
      BY <1>1, <1>2 DEF Accessed, device, told
    <2> QED BY <1>1, <1>2, <2>1, <2>2, <2>3, ScriptStage
  <1>6. CASE ~req.display /\ Return("OK", Address)
    BY <1>1, <1>2, <1>6, AddressReturned
  <1> QED BY <1>4, <1>5, <1>6 DEF ScriptMade

\* The address is shown, and approved or rejected.
LEMMA AddressShownKeeps == ASSUME IInv, AddressShown PROVE IInv'
  <1>1. /\ UNCHANGED device /\ UNCHANGED told /\ req' = req /\ hdr' = hdr /\ tpl' = tpl
        /\ infos' = infos /\ is_default' = is_default /\ pc = "show"
    BY DEF AddressShown
  <1>2. CASE Refuse("DENY")
    <2>1. "DENY" \in Words
      BY DEF Words
    <2>2. /\ pc' = "done" /\ pc' \in Pcs /\ sw' \in Words /\ disturbed' \in BOOLEAN
          /\ reply' = None
      BY <1>2, <2>1, Ends DEF IInv
    <2>3. TypeInv'
      BY <1>1, <2>2, TypesKept DEF IInv, TypeInv
    <2> QED BY <1>1, <2>2, <2>3, AtRest DEF IInv
  <1>3. CASE approved' = <<AddressScreen>> /\ Return("OK", Address)
    BY <1>1, <1>3, AddressReturned
  <1> QED BY <1>2, <1>3 DEF AddressShown

\* The extended public key is made, and shown if the client asked for it.
LEMMA PubkeyMadeKeeps == ASSUME IInv, PubkeyMade PROVE IInv'
  <1>1. /\ UNCHANGED device /\ UNCHANGED told /\ req' = req /\ hdr' = hdr /\ tpl' = tpl
        /\ infos' = infos /\ is_default' = is_default /\ pc = "export"
    BY DEF PubkeyMade
  <1>2. CASE Refuse("DENY") \/ Fails("BAD_STATE")
    <2>1. "DENY" \in Words /\ "BAD_STATE" \in Words
      BY DEF Words
    <2>2. /\ pc' = "done" /\ pc' \in Pcs /\ sw' \in Words /\ disturbed' \in BOOLEAN
          /\ reply' = None
      BY <1>2, <2>1, Ends DEF IInv
    <2>3. TypeInv'
      BY <1>1, <2>2, TypesKept DEF IInv, TypeInv
    <2> QED BY <1>1, <2>2, <2>3, AtRest DEF IInv
  <1>3. CASE /\ Return("OK", Xpub)
             /\ req.display = 0 \/ approved' = <<PubkeyScreen(req.path)>>
    <2>1. /\ pc' = "done" /\ pc' \in Pcs /\ sw' \in Words /\ disturbed' \in BOOLEAN
          /\ reply' = Xpub
      BY <1>3 DEF Return, Pcs, Words, IInv, TypeInv
    <2>2. TypeInv'
      BY <1>1, <2>1, TypesKept DEF IInv, TypeInv
    <2>3. is_path_safe_for_pubkey_export(req'.path) \/ approved' = <<PubkeyScreen(req'.path)>>
      <3>1. req.display = 1 \/ is_path_safe_for_pubkey_export(req.path)
        BY <1>1 DEF IInv, ExportInv
      <3> QED BY <1>1, <1>3, <3>1
    <2>4. reply'[1] = "xpub"
      BY <2>1 DEF Xpub
    <2>5. ReplyInv'
      BY <2>1, <2>3, <2>4 DEF ReplyInv, GivesAddress
    <2>6. RequestInv' /\ PolicyInv' /\ KeysInv' /\ ReviewInv' /\ AccessInv' /\ ExportInv'
      BY <2>1 DEF RequestInv, PolicyInv, KeysInv, ReviewInv, AccessInv, ExportInv
    <2> QED BY <1>1, <2>2, <2>5, <2>6, ToldKept DEF IInv
  <1> QED BY <1>2, <1>3 DEF PubkeyMade

\* The fingerprint of the master key is made.
LEMMA FingerprintMadeKeeps == ASSUME IInv, FingerprintMade PROVE IInv'
  <1>1. /\ UNCHANGED device /\ UNCHANGED told /\ req' = req /\ hdr' = hdr /\ tpl' = tpl
        /\ infos' = infos /\ is_default' = is_default
    BY DEF FingerprintMade, locals
  <1>2. CASE Fails("BAD_STATE")
    <2>1. "BAD_STATE" \in Words
      BY DEF Words
    <2>2. /\ pc' = "done" /\ pc' \in Pcs /\ sw' \in Words /\ disturbed' \in BOOLEAN
          /\ reply' = None
      BY <1>2, <2>1, Ends DEF IInv
    <2>3. TypeInv'
      BY <1>1, <2>2, TypesKept DEF IInv, TypeInv
    <2> QED BY <1>1, <2>2, <2>3, AtRest DEF IInv
  <1>3. CASE Return("OK", <<"fingerprint", Fingerprint(seed)>>)
    <2>1. /\ pc' = "done" /\ pc' \in Pcs /\ sw' \in Words /\ disturbed' \in BOOLEAN
          /\ reply' = <<"fingerprint", Fingerprint(seed)>>
      BY <1>3 DEF Return, Pcs, Words, IInv, TypeInv
    <2>2. TypeInv'
      BY <1>1, <2>1, TypesKept DEF IInv, TypeInv
    <2>3. reply'[1] = "fingerprint"
      BY <2>1
    <2>4. ReplyInv'
      BY <2>1, <2>3 DEF ReplyInv, GivesAddress
    <2>5. RequestInv' /\ PolicyInv' /\ KeysInv' /\ ReviewInv' /\ AccessInv' /\ ExportInv'
      BY <2>1 DEF RequestInv, PolicyInv, KeysInv, ReviewInv, AccessInv, ExportInv
    <2> QED BY <1>1, <2>2, <2>4, <2>5, ToldKept DEF IInv
  <1> QED BY <1>2, <1>3 DEF FingerprintMade

\* The frame of the handler goes.
LEMMA GoneKeeps ==
  ASSUME IInv, NEW where \in {"idle", "off"}, Gone(where), UNCHANGED device, UNCHANGED told
  PROVE  IInv'
  <1>1. /\ pc' = where /\ pc' \in Pcs /\ sw' \in Words /\ disturbed' \in BOOLEAN
        /\ is_default' \in BOOLEAN /\ reply' = None
    BY DEF Gone, Pcs, Words
  <1>2. hdr' \in AllHeaders /\ tpl' \in Templates \cup {Partial}
    BY DEF Gone, AllHeaders
  <1>3. infos' \in Seq(EntrySet) /\ Len(infos') <= MAX_N_KEYS_IN_WALLET_POLICY
    <2>1. infos' \in Seq(EntrySet) /\ Len(infos') = 0
      BY EmptySeq DEF Gone
    <2> QED BY <2>1, LimitAssumption
  <1>4. TypeInv'
    BY <1>1, <1>2, <1>3, TypesKept DEF IInv
  <1> QED BY <1>1, <1>4, AtRest DEF IInv

\* The app starts again, perhaps under another seed.
LEMMA StartKeeps ==
  ASSUME IInv, NEW s \in Seeds, NEW from_swap \in BOOLEAN, Start(s, from_swap)
  PROVE  IInv'
  <1>1. pc' = "idle" /\ pc' \in Pcs /\ reply' = None /\ UNCHANGED told
    BY DEF Start, Pcs, IInv, ReplyInv
  <1>2. lib' \in {"bagl", "nbgl"} /\ seed' \in Seeds /\ swap' \in BOOLEAN
    BY DEF Start, IInv, TypeInv
  <1>3. /\ hdr' = hdr /\ tpl' = tpl /\ infos' = infos /\ is_default' = is_default
        /\ sw' = sw /\ disturbed' = disturbed
    BY DEF Start, locals
  <1>4. TypeInv'
    BY <1>1, <1>2, <1>3 DEF IInv, TypeInv
  <1> QED BY <1>1, <1>4, AtRest DEF IInv

\* Nothing happens.
LEMMA StutterKeeps == ASSUME IInv, UNCHANGED vars PROVE IInv'
  <1>1. /\ lib' = lib /\ seed' = seed /\ swap' = swap /\ pc' = pc /\ req' = req /\ hdr' = hdr
        /\ tpl' = tpl /\ infos' = infos /\ is_default' = is_default /\ approved' = approved
        /\ sw' = sw /\ reply' = reply /\ disturbed' = disturbed /\ hmacs' = hmacs
        /\ registered' = registered
    BY DEF vars, device, locals, told
  <1>2. TypeInv' /\ ToldInv'
    BY <1>1 DEF IInv, TypeInv, ToldInv
  <1>3. RequestInv' /\ PolicyInv' /\ ExportInv'
    BY <1>1 DEF IInv, RequestInv, PolicyInv, ExportInv, AddressRequests
  <1>4. KeysInv'
    BY <1>1 DEF IInv, KeysInv, Collected
  <1>5. ReviewInv'
    BY <1>1 DEF IInv, ReviewInv, Shown
  <1>6. AccessInv'
    BY <1>1 DEF IInv, AccessInv, Accessed
  <1>7. ReplyInv'
    BY <1>1 DEF IInv, ReplyInv, GivesAddress, Accessed, Address, AddressScreen
  <1> QED BY <1>2, <1>3, <1>4, <1>5, <1>6, <1>7 DEF IInv

\* Every step keeps the invariant.
LEMMA NextInv == IInv /\ [Next]_vars => IInv'
  <1> SUFFICES ASSUME IInv, [Next]_vars PROVE IInv'
    OBVIOUS
  <1>1. CASE Step
    BY <1>1, PolicyReceivedKeeps, TemplateReceivedKeeps, RegisterChecksKeeps, KeyReceivedKeeps,
       KeysReceivedKeeps, ReviewScreenKeeps, RegisteredKeeps, DefaultAccessKeeps,
       RegisteredAccessKeeps, ScriptMadeKeeps, AddressShownKeeps, PubkeyMadeKeeps,
       FingerprintMadeKeeps, GoneKeeps DEF Step, Sent
  <1>2. ASSUME NEW h \in Headers, NEW sent \in BOOLEAN, RegisterWallet(h, sent) PROVE IInv'
    BY <1>2, RegisterWalletKeeps
  <1>3. ASSUME NEW sent \in BOOLEAN, NEW r \in AddressRequests, GetWalletAddress(r, sent)
        PROVE  IInv'
    BY <1>3, GetWalletAddressKeeps
  <1>4. ASSUME NEW sent \in BOOLEAN, NEW r \in PubkeyRequests, GetExtendedPubkey(r, sent)
        PROVE  IInv'
    BY <1>4, GetExtendedPubkeyKeeps
  <1>5. CASE GetMasterFingerprint
    BY <1>5, GetMasterFingerprintKeeps
  <1>6. CASE Quit
    BY <1>6, GoneKeeps DEF Quit
  <1>7. ASSUME NEW s \in Seeds, NEW from_swap \in BOOLEAN, Start(s, from_swap) PROVE IInv'
    BY <1>7, StartKeeps
  <1>8. CASE UNCHANGED vars
    BY <1>8, StutterKeeps
  <1> QED
    BY <1>1, <1>2, <1>3, <1>4, <1>5, <1>6, <1>7, <1>8 DEF Next

\* The invariant holds in every reachable state.
THEOREM Invariance == Spec => []IInv
  BY InitInv, NextInv, PTL DEF Spec

-----------------------------------------------------------------------------
(* What follows *)

\* The variables have their types, and no more keys are fetched than the arrays of
\* handler_register_wallet hold.
THEOREM TypeCorrect == Spec => []TypeOK
  <1>1. IInv => TypeOK
    <2> SUFFICES ASSUME IInv PROVE TypeOK
      OBVIOUS
    <2>1. infos \in Seq(EntrySet) /\ Len(infos) <= MAX_N_KEYS_IN_WALLET_POLICY
      BY DEF IInv, TypeInv
    <2>2. DOMAIN infos = 1 .. Len(infos) /\ Len(infos) \in Nat
      BY <2>1, LenProperties
    <2>3. Len(infos) \in 0 .. MAX_N_KEYS_IN_WALLET_POLICY
      BY <2>1, <2>2, LimitAssumption
    <2>4. DOMAIN infos \in {1 .. n : n \in 0 .. MAX_N_KEYS_IN_WALLET_POLICY}
      BY <2>2, <2>3
    <2> QED BY <2>4 DEF IInv, TypeInv, TypeOK
  <1> QED BY <1>1, Invariance, PTL

\* REGISTER_WALLET gives an hmac only for a policy of which the user approved every screen.
THEOREM RegistrationsAreReviewed == Spec => []HmacIsReviewed
  <1>1. IInv => HmacIsReviewed
    BY DEF IInv, ToldInv, Reviewed, HmacIsReviewed, HasKeys
  <1> QED BY <1>1, Invariance, PTL

\* GET_WALLET_ADDRESS returns an address under a name only for a policy that the user approved
\* with this name and these keys, under this seed, and shows it with the name.
THEOREM NamedAddressesAreReviewed == Spec => []AddressWasReviewed
  <1>1. ASSUME IInv, GivesAddress, ~is_default
        PROVE  /\ \E r \in registered :
                    /\ r.seed = seed
                    /\ \E t \in Templates : /\ r.review = Review(hdr, t, Entries(seed, hdr))
                                            /\ Filled(hdr) => t = reply[2]
               /\ reply[3] = hdr.root
               /\ req.display => approved = <<<<<<hdr.name>>, reply>>>>
    <2>1. /\ reply = Address /\ TemplateRead(hdr, tpl) /\ Accessed
          /\ req.display => approved = <<AddressScreen>>
      BY <1>1 DEF IInv, ReplyInv
    <2>2. reply[2] = tpl /\ reply[3] = hdr.root
      BY <2>1 DEF Address
    <2>3. PICK r \in registered : r.seed = seed /\ r.header = hdr
      BY <1>1, <2>1 DEF Accessed
    <2>4. Reviewed(r)
      BY <1>1, <2>3 DEF IInv, ToldInv
    <2>5. /\ r.review = Review(hdr, r.tpl, Entries(seed, hdr)) /\ r.tpl \in Templates
          /\ Filled(hdr) => r.tpl = tpl
      BY <2>1, <2>3, <2>4 DEF Reviewed, TemplateRead
    <2>6. AddressScreen = <<<<hdr.name>>, reply>>
      BY <1>1, <2>1 DEF AddressScreen
    <2> QED BY <2>1, <2>2, <2>3, <2>5, <2>6
  <1>2. IInv => AddressWasReviewed
    BY <1>1 DEF AddressWasReviewed
  <1> QED BY <1>2, Invariance, PTL

\* GET_WALLET_ADDRESS returns only addresses of policies in which this seed holds a key.
THEOREM AddressesAreOurs == Spec => []AddressIsOurs
  <1>1. ASSUME IInv, GivesAddress PROVE Owned(seed, hdr)
    <2>1. Accessed /\ hdr \in AllHeaders
      BY <1>1 DEF IInv, ReplyInv, TypeInv
    <2>2. CASE is_default
      <3>1. is_wallet_policy_standard(seed, hdr, tpl)
        BY <2>1, <2>2 DEF Accessed
      <3>2. /\ hdr.n_keys = 1 /\ HasKeys(hdr) /\ HasOriginOf(seed, hdr.root[1])
            /\ Derives(seed, hdr.root[1])
        BY <3>1 DEF is_wallet_policy_standard
      <3>3. DOMAIN hdr.root = 1 .. Len(hdr.root)
        BY <2>1, HeadersAssumption, LenProperties
      <3>4. 1 \in DOMAIN hdr.root
        BY SMTT(30), ZenonT(20), <3>2, <3>3 DEF HasKeys
      <3> QED BY <3>2, <3>4 DEF Owned, HasOriginOf
    <2>3. CASE ~is_default
      <3>1. PICK r \in registered : r.seed = seed /\ r.header = hdr
        BY <2>1, <2>3 DEF Accessed
      <3> QED BY <1>1, <3>1 DEF IInv, ToldInv, Reviewed
    <2> QED BY <2>2, <2>3
  <1>2. IInv => AddressIsOurs
    BY <1>1 DEF AddressIsOurs, Owned
  <1> QED BY <1>2, Invariance, PTL

\* A path that is standard for some purpose is safe to export.
LEMMA StandardIsSafe ==
  ASSUME NEW purpose \in {44, 49, 84, 86}, NEW path, StandardPath(purpose, path)
  PROVE  is_path_safe_for_pubkey_export(path)
  <1>1. /\ Len(path) = 3 /\ path[1] = <<purpose, TRUE>> /\ path[2] = <<BIP44_COIN_TYPE, TRUE>>
        /\ path[3][2] /\ path[3][1] <= MAX_BIP44_ACCOUNT_RECOMMENDED
    BY DEF StandardPath
  <1>2. path[1][1] = purpose /\ path[1][2] /\ path[2][1] = BIP44_COIN_TYPE /\ path[2][2]
    BY SMTT(90), ZenonT(40), <1>1
  <1>3. HardenedLength(path[1][1]) = 3
    BY SMTT(30), ZenonT(20), <1>2 DEF HardenedLength
  <1>4. Hardened(path, 3)
    <2>1. \A j \in 1 .. 3 : j = 1 \/ j = 2 \/ j = 3
      OBVIOUS
    <2> QED BY <1>1, <1>2, <2>1 DEF Hardened
  <1>5. \A j \in 3 + 1 .. Len(path) : ~path[j][2]
    BY SMTT(30), ZenonT(20), <1>1
  <1>6. path[1][1] \in {44, 45, 48, 49, 84, 86} /\ path[1][1] # 48 /\ Len(path) >= 3
    BY SMTT(30), ZenonT(20), <1>1, <1>2
  <1> QED BY <1>1, <1>2, <1>3, <1>4, <1>5, <1>6 DEF is_path_safe_for_pubkey_export

\* The key of a default policy can be exported unseen, and no name is shown with its addresses.
THEOREM DefaultsAreExportable == Spec => []DefaultIsExportable
  <1>1. ASSUME IInv, GivesAddress, is_default
        PROVE  /\ is_path_safe_for_pubkey_export(hdr.root[1].path)
               /\ req.display => approved = <<<<None, reply>>>>
    <2>1. /\ reply = Address /\ Accessed /\ (req.display => approved = <<AddressScreen>>)
      BY <1>1 DEF IInv, ReplyInv
    <2>2. is_wallet_policy_standard(seed, hdr, tpl)
      BY <1>1, <2>1 DEF Accessed
    <2>3. /\ get_bip44_purpose(tpl) > 0
          /\ StandardPath(get_bip44_purpose(tpl), hdr.root[1].path)
      BY <2>2 DEF is_wallet_policy_standard
    <2>4. get_bip44_purpose(tpl) \in {44, 49, 84, 86, -1}
      BY SMTT(30), ZenonT(20) DEF get_bip44_purpose
    <2>5. get_bip44_purpose(tpl) \in {44, 49, 84, 86}
      BY <2>3, <2>4
    <2>6. AddressScreen = <<None, reply>>
      BY <1>1, <2>1 DEF AddressScreen
    <2> QED BY SMTT(90), ZenonT(40), <2>1, <2>3, <2>5, <2>6, StandardIsSafe
  <1>2. IInv => DefaultIsExportable
    BY <1>1 DEF DefaultIsExportable
  <1> QED BY <1>2, Invariance, PTL

\* GET_EXTENDED_PUBKEY returns a key unseen only at or below an account of this coin, and any
\* other only after a warning.
THEOREM ExportsAreConfirmed == Spec => []ExportIsConfirmed
  <1>1. ASSUME NEW path, is_path_safe_for_pubkey_export(path)
        PROVE  path = Electrum \/ AccountOrBelow(path)
    <2>1. CASE path # Electrum
      <3> DEFINE n == HardenedLength(path[1][1])
      <3>1. n \in 3 .. 4
        BY DEF HardenedLength
      <3>2. /\ Len(path) >= n /\ Hardened(path, n) /\ \A j \in n + 1 .. Len(path) : ~path[j][2]
            /\ path[2][1] = BIP44_COIN_TYPE /\ path[3][1] <= MAX_BIP44_ACCOUNT_RECOMMENDED
        BY <1>1, <2>1 DEF is_path_safe_for_pubkey_export
      <3> HIDE DEF n
      <3> QED BY <3>1, <3>2 DEF AccountOrBelow
    <2> QED BY <2>1
  <1>2. ASSUME IInv, reply # None, reply[1] = "xpub"
        PROVE  \/ req.path = Electrum \/ AccountOrBelow(req.path)
               \/ approved = <<<<"pubkey", req.path, TRUE>>>>
    <2>1. is_path_safe_for_pubkey_export(req.path) \/ approved = <<PubkeyScreen(req.path)>>
      BY <1>2 DEF IInv, ReplyInv
    <2>2. CASE is_path_safe_for_pubkey_export(req.path)
      BY <1>1, <2>2
    <2>3. CASE ~is_path_safe_for_pubkey_export(req.path) /\ approved = <<PubkeyScreen(req.path)>>
      BY <2>3 DEF PubkeyScreen
    <2> QED BY <2>1, <2>2, <2>3
  <1>3. IInv => ExportIsConfirmed
    BY <1>2 DEF ExportIsConfirmed
  <1> QED BY <1>3, Invariance, PTL

-----------------------------------------------------------------------------
(* A registered policy stays usable: a second invariant *)

\* The header and the template passed the reader and the parser.
Read(h, t) ==
  /\ read_wallet_policy_header(h) /\ t \in Readings(h.text, h.len) /\ t # Partial
  /\ Parses(t, h.version)
Taken(r) ==
  /\ Read(r.header, r.tpl)
  /\ r.hmac # Stack => r.hmac = compute_wallet_hmac(r.seed, get_policy_wallet_id(r.header))

\* The request presents a registration that RegisteredIsAccepted is about.
Presented(r) ==
  /\ r.seed = seed /\ r.hmac # Stack /\ r.hmac = req.hmac
  /\ req.id = get_policy_wallet_id(r.header)
  /\ Filled(r.header) /\ Emits(r.tpl) /\ get_action_step(r.header.name) < 1

StageInv ==
  /\ pc \in {"checks", "keys", "review"} => req.cmd = "register"
  /\ pc \in {"export", "fingerprint"} => req.cmd # "address"
  /\ pc = "template" => /\ read_wallet_policy_header(hdr)
                        /\ req.cmd # "register" => hdr = req.id.header
  /\ pc \in {"access", "script", "show"} => hdr = req.id.header
  /\ pc \in {"checks", "keys", "review", "access", "script", "show"} => Read(hdr, tpl)

RefusedInv ==
  pc = "done" /\ req.cmd = "address" /\ ~disturbed /\ sw \notin {"OK", "DENY"} =>
    \A r \in registered : ~Presented(r)

UseInv == (\A r \in registered : Taken(r)) /\ StageInv /\ RefusedInv

\* If the text fills the buffer, there is only one way to read a template from it.
LEMMA OneReading ==
  ASSUME NEW h \in AllHeaders, Filled(h), NEW t \in Readings(h.text, h.len), t # Partial,
         NEW u \in Readings(h.text, h.len)
  PROVE  u = t
  <1>1. ~(h.len > h.text.size + h.text.extra)
    BY SMTT(30), ZenonT(20), HeadersAssumption DEF Filled
  <1> QED BY <1>1 DEF Readings

\* A registration that is presented has the header that the id stands for.
LEMMA PresentedHeader ==
  ASSUME NEW r, Presented(r)
  PROVE  req.id.header = r.header
  BY SMTT(90), ZenonT(40) DEF Presented, get_policy_wallet_id, Bytes

\* A step that changes neither the registrations nor ends an address command in refusal.
LEMMA UseKept ==
  ASSUME UseInv, UNCHANGED told, StageInv',
         ~(pc' = "done" /\ req'.cmd = "address" /\ ~disturbed' /\ sw' \notin {"OK", "DENY"})
  PROVE  UseInv'
  <1>1. registered' = registered
    BY DEF told
  <1>2. \A r \in registered' : Taken(r)
    BY <1>1 DEF UseInv
  <1>3. RefusedInv'
    BY DEF RefusedInv
  <1> QED BY <1>2, <1>3 DEF UseInv

\* A step that refuses an address command when no registration is presented that must pass.
LEMMA UseRefused ==
  ASSUME UseInv, UNCHANGED told, UNCHANGED device, pc' = "done", req' = req,
         \A r \in registered : ~Presented(r)
  PROVE  UseInv'
  <1>1. registered' = registered /\ seed' = seed
    BY DEF told, device
  <1>2. \A r \in registered' : Taken(r)
    BY <1>1 DEF UseInv
  <1>3. StageInv'
    BY DEF StageInv
  <1>4. \A r \in registered' : ~Presented(r)'
    BY <1>1 DEF Presented
  <1>5. RefusedInv'
    BY <1>4 DEF RefusedInv
  <1> QED BY <1>2, <1>3, <1>5 DEF UseInv

\* The steps of GET_WALLET_ADDRESS up to the template.
LEMMA UsePolicy == ASSUME IInv, UseInv, PolicyReceived PROVE UseInv'
  <1>1. /\ pc = "policy" /\ UNCHANGED device /\ UNCHANGED told /\ req' = req
    BY DEF PolicyReceived
  <1>2. CASE Fails("INCORRECT_DATA")
    <2>1. pc' = "done" /\ disturbed'
      BY <1>2 DEF Fails
    <2>2. StageInv'
      BY <2>1 DEF StageInv
    <2> QED BY <1>1, <2>1, <2>2, UseKept
  <1>3. CASE Continue("template") /\ hdr' = req.id.header /\ read_wallet_policy_header(req.id.header)
    <2>1. pc' = "template"
      BY <1>3 DEF Continue
    <2>2. StageInv'
      BY <1>1, <1>3, <2>1 DEF StageInv
    <2> QED BY <1>1, <2>1, <2>2, UseKept
  <1>4. CASE Refuse("INCORRECT_DATA") /\ ~read_wallet_policy_header(req.id.header)
    <2>1. \A r \in registered : ~Presented(r)
      BY <1>4, PresentedHeader DEF UseInv, Taken, Read
    <2>2. pc' = "done"
      BY <1>4 DEF Refuse, Return
    <2> QED BY <1>1, <2>1, <2>2, UseRefused
  <1> QED BY <1>2, <1>3, <1>4 DEF PolicyReceived

\* The template, for both commands.
LEMMA UseTemplate == ASSUME IInv, UseInv, TemplateReceived PROVE UseInv'
  <1>1. /\ pc = "template" /\ UNCHANGED device /\ UNCHANGED told /\ req' = req /\ hdr' = hdr
    BY DEF TemplateReceived
  <1>2. CASE Fails("INCORRECT_DATA")
    <2>1. pc' = "done" /\ disturbed'
      BY <1>2 DEF Fails
    <2>2. StageInv'
      BY <2>1 DEF StageInv
    <2> QED BY <1>1, <2>1, <2>2, UseKept
  <1>3. ASSUME NEW described \in Described, NEW t \in Readings(hdr.text, hdr.len),
               described, t # Partial, Parses(t, hdr.version), tpl' = t,
               Continue(IF req.cmd = "register" THEN "checks" ELSE "access")
        PROVE  UseInv'
    <2>1. pc' = IF req.cmd = "register" THEN "checks" ELSE "access"
      BY <1>3 DEF Continue
    <2>2. /\ read_wallet_policy_header(hdr)
          /\ req.cmd # "register" => hdr = req.id.header
      BY <1>1 DEF UseInv, StageInv
    <2>3. Read(hdr, t)
      BY <1>3, <2>2 DEF Read
    <2>4. StageInv'
      BY <1>1, <1>3, <2>1, <2>2, <2>3 DEF StageInv
    <2> QED BY <1>1, <2>1, <2>4, UseKept
  <1>4. ASSUME NEW described \in Described, NEW t \in Readings(hdr.text, hdr.len),
               ~(described /\ t # Partial /\ Parses(t, hdr.version)), Refuse("INCORRECT_DATA")
        PROVE  UseInv'
    <2>1. pc' = "done"
      BY <1>4 DEF Refuse, Return
    <2>2. CASE req.cmd = "register"
      <3>1. StageInv'
        BY <2>1 DEF StageInv
      <3> QED BY <1>1, <2>2, <3>1, UseKept
    <2>3. CASE req.cmd # "register"
      <3>1. hdr = req.id.header /\ hdr \in AllHeaders
        BY <1>1, <2>3 DEF UseInv, StageInv, IInv, TypeInv
      <3>2. ASSUME NEW r \in registered, Presented(r) PROVE FALSE
        <4>1. hdr = r.header /\ Filled(hdr) /\ ~(get_action_step(hdr.name) > 0)
          <5>1. hdr = r.header
            BY <3>1, <3>2, PresentedHeader
          <5>2. get_action_step(hdr.name) < 1 => ~(get_action_step(hdr.name) > 0)
            <6>1. get_action_step(hdr.name) \in Int
              BY DEF get_action_step
            <6> QED BY <6>1
          <5> QED BY <3>2, <5>1, <5>2 DEF Presented
        <4>2. described
          BY <1>4, <4>1 DEF Described
        <4>3. Read(hdr, r.tpl)
          BY <4>1 DEF UseInv, Taken
        <4>4. t = r.tpl
          BY <1>4, <3>1, <4>1, <4>3, OneReading DEF Read
        <4> QED BY <1>4, <4>2, <4>3, <4>4 DEF Read
      <3> QED BY <1>1, <2>1, <3>2, UseRefused
    <2> QED BY <2>2, <2>3
  <1> QED BY <1>2, <1>3, <1>4 DEF TemplateReceived

\* The checks of REGISTER_WALLET, its keys and its screens are no steps of an address command.
LEMMA UseRegister ==
  ASSUME IInv, UseInv, RegisterChecks \/ KeyReceived \/ KeysReceived \/ ReviewScreen
  PROVE  UseInv'
  <1>1. /\ pc \in {"checks", "keys", "review"} /\ UNCHANGED told /\ req' = req /\ hdr' = hdr
        /\ tpl' = tpl
    BY DEF RegisterChecks, KeyReceived, KeysReceived, ReviewScreen, locals
  <1>2. pc' \in {"keys", "review", "done"}
    BY DEF RegisterChecks, KeyReceived, KeysReceived, ReviewScreen, Refuse, Return, Fails, Continue
  <1>3. req.cmd = "register" /\ Read(hdr, tpl)
    BY <1>1 DEF UseInv, StageInv
  <1>4. StageInv'
    BY <1>1, <1>2, <1>3 DEF StageInv
  <1> QED BY <1>1, <1>3, <1>4, UseKept

\* The end of a registration.
LEMMA UseRegistered == ASSUME IInv, UseInv, Registered PROVE UseInv'
  <1> DEFINE id == get_policy_wallet_id(hdr)
             Record(hmac) == [hmac |-> hmac, seed |-> seed, header |-> hdr, tpl |-> tpl,
                              review |-> approved]
  <1>1. pc = "review" /\ req' = req
    BY DEF Registered, locals
  <1>2. PICK hmac \in {compute_wallet_hmac(seed, id), Stack} :
          /\ Return("OK", <<"registered", id, hmac>>)
          /\ registered' = registered \cup {Record(hmac)}
    BY DEF Registered
  <1>3. req.cmd = "register" /\ Read(hdr, tpl)
    BY <1>1 DEF UseInv, StageInv
  <1>4. Taken(Record(hmac))
    BY <1>2, <1>3 DEF Taken
  <1>5. \A r \in registered' : Taken(r)
    BY <1>2, <1>4 DEF UseInv
  <1>6. pc' = "done" /\ sw' = "OK"
    BY <1>2 DEF Return
  <1> QED BY <1>5, <1>6 DEF UseInv, StageInv, RefusedInv

\* The access to a policy, with and without an hmac.
LEMMA UseAccess ==
  ASSUME IInv, UseInv, DefaultAccess \/ RegisteredAccess
  PROVE  UseInv'
  <1>1. /\ pc = "access" /\ UNCHANGED device /\ UNCHANGED told /\ req' = req /\ hdr' = hdr
        /\ tpl' = tpl
    BY DEF DefaultAccess, RegisteredAccess, locals
  <1>2. hdr = req.id.header /\ Read(hdr, tpl)
    BY <1>1 DEF UseInv, StageInv
  <1>3. CASE pc' = "script" \/ pc' = "ended" \/ (pc' = "done" /\ disturbed')
    <2>1. StageInv'
      BY <1>1, <1>2, <1>3 DEF StageInv
    <2> QED BY <1>1, <1>3, <2>1, UseKept
  <1>4. ASSUME NEW r \in registered, Presented(r)
        PROVE  req.hmac # NoHmac /\ HmacAccepted /\ IdMatches
    <2>1. hdr = r.header
      BY <1>2, <1>4, PresentedHeader
    <2>2. IdMatches
      BY <1>4, <2>1 DEF Presented, IdMatches
    <2>3. req.hmac = compute_wallet_hmac(seed, req.id)
      BY <1>4 DEF UseInv, Taken, Presented
    <2>4. req.hmac # NoHmac
      <3>1. Len(req.hmac) = 2 /\ Len(NoHmac) = 1
        BY <2>3 DEF compute_wallet_hmac, NoHmac
      <3> QED BY <3>1
    <2> QED BY <2>2, <2>3, <2>4 DEF HmacAccepted, check_wallet_hmac
  <1>5. CASE pc' = "done" /\ ~(req.hmac # NoHmac /\ HmacAccepted /\ IdMatches)
    BY <1>1, <1>4, <1>5, UseRefused
  <1>6. \/ pc' = "script" \/ pc' = "ended" \/ (pc' = "done" /\ disturbed')
        \/ pc' = "done" /\ ~(req.hmac # NoHmac /\ HmacAccepted /\ IdMatches)
    BY DEF DefaultAccess, RegisteredAccess, Refuse, Return, Fails, Continue
  <1> QED BY <1>3, <1>5, <1>6

\* The script and the screen of an address.
LEMMA UseScript ==
  ASSUME IInv, UseInv, ScriptMade \/ AddressShown
  PROVE  UseInv'
  <1>1. /\ pc \in {"script", "show"} /\ UNCHANGED device /\ UNCHANGED told /\ req' = req
        /\ hdr' = hdr /\ tpl' = tpl
    BY DEF ScriptMade, AddressShown, locals
  <1>2. hdr = req.id.header /\ Read(hdr, tpl) /\ hdr \in AllHeaders
    BY <1>1 DEF UseInv, StageInv, IInv, TypeInv
  <1>3. CASE pc' = "show" \/ (pc' = "done" /\ (disturbed' \/ sw' \in {"OK", "DENY"}))
    <2>1. StageInv'
      BY <1>1, <1>2, <1>3 DEF StageInv
    <2> QED BY <1>1, <1>3, <2>1, UseKept
  <1>4. ASSUME NEW r \in registered, Presented(r) PROVE HasKeys(hdr) /\ Emits(tpl)
    <2>1. hdr = r.header
      BY <1>2, <1>4, PresentedHeader
    <2>2. Read(hdr, r.tpl) /\ Filled(hdr) /\ Emits(r.tpl)
      BY <1>4, <2>1 DEF UseInv, Taken, Presented
    <2>3. tpl = r.tpl
      BY <1>2, <2>2, OneReading DEF Read
    <2>4. HasKeys(hdr)
      BY <1>4, <2>1 DEF IInv, ToldInv, Reviewed
    <2> QED BY <2>2, <2>3, <2>4
  <1>5. CASE pc' = "done" /\ ~(HasKeys(hdr) /\ Emits(tpl))
    BY <1>1, <1>4, <1>5, UseRefused
  <1>6. \/ pc' = "show" \/ (pc' = "done" /\ (disturbed' \/ sw' \in {"OK", "DENY"}))
        \/ pc' = "done" /\ ~(HasKeys(hdr) /\ Emits(tpl))
    BY DEF ScriptMade, AddressShown, Refuse, Return, Fails, Continue
  <1> QED BY <1>3, <1>5, <1>6

\* A new request.
LEMMA UseBegin ==
  ASSUME UseInv, NEW r, NEW h, NEW sent \in BOOLEAN, NEW early, NEW accepted \in BOOLEAN,
         NEW where, NEW word, Begin(r, h, sent, early, accepted, where, word),
         \/ where = "policy"
         \/ where = "template" /\ r.cmd = "register" /\ (accepted => read_wallet_policy_header(h))
         \/ where \in {"export", "fingerprint"} /\ r.cmd # "address"
  PROVE  UseInv'
  <1>1. UNCHANGED told
    BY DEF Begin
  <1>2. CASE sent /\ accepted
    <2>1. pc' = where /\ req' = r /\ hdr' = h
      BY <1>2 DEF Begin
    <2>2. StageInv'
      BY <1>2, <2>1 DEF StageInv
    <2> QED BY <1>1, <2>1, <2>2, UseKept
  <1>3. CASE ~(sent /\ accepted)
    <2>1. pc' = "done" /\ req' = [cmd |-> "none"]
      BY <1>3 DEF Begin
    <2>2. req'.cmd = "none"
      BY <2>1
    <2>3. StageInv'
      BY <2>1 DEF StageInv
    <2> QED BY <1>1, <2>2, <2>3, UseKept
  <1> QED BY <1>2, <1>3

\* The other commands, and the end of the handler and of the app.
LEMMA UseOther ==
  ASSUME IInv, UseInv,
         PubkeyMade \/ FingerprintMade \/ Sent \/ Quit \/ \E s \in Seeds, b \in BOOLEAN : Start(s, b)
  PROVE  UseInv'
  <1>1. UNCHANGED told
    BY DEF PubkeyMade, FingerprintMade, Sent, Quit, Start
  <1>2. \/ pc' \in {"idle", "off"}
        \/ pc' = "done" /\ req' = req /\ pc \in {"export", "fingerprint"}
    BY DEF PubkeyMade, FingerprintMade, Sent, Quit, Start, Gone, Refuse, Return, Fails, locals
  <1>3. StageInv'
    BY <1>2 DEF StageInv
  <1>4. pc \in {"export", "fingerprint"} => req.cmd # "address"
    BY DEF UseInv, StageInv
  <1> QED BY <1>1, <1>2, <1>3, <1>4, UseKept

\* Every step keeps the second invariant.
LEMMA NextUse == IInv /\ UseInv /\ [Next]_vars => UseInv'
  <1> SUFFICES ASSUME IInv, UseInv, [Next]_vars PROVE UseInv'
    OBVIOUS
  <1>1. CASE Step
    BY <1>1, UsePolicy, UseTemplate, UseRegister, UseRegistered, UseAccess, UseScript, UseOther
       DEF Step
  <1>2. ASSUME NEW h \in Headers, NEW sent \in BOOLEAN, RegisterWallet(h, sent) PROVE UseInv'
    <2> DEFINE r == [cmd |-> "register", header |-> h]
    <2>1. Begin(r, h, sent, TRUE, read_wallet_policy_header(h), "template", "INCORRECT_DATA")
      BY <1>2 DEF RegisterWallet
    <2>2. read_wallet_policy_header(h) \in BOOLEAN /\ r.cmd = "register"
      BY DEF read_wallet_policy_header
    <2> HIDE DEF r
    <2> QED BY <2>1, <2>2, UseBegin
  <1>3. ASSUME NEW sent \in BOOLEAN, NEW r \in AddressRequests, GetWalletAddress(r, sent)
        PROVE  UseInv'
    <2> DEFINE allowed == r.change \in {0, 1} /\ r.index < BIP32_FIRST_HARDENED_CHILD
    <2>1. Begin(r, NoHeader, sent, r.change \notin {0, 1}, allowed, "policy", "INCORRECT_DATA")
      BY <1>3 DEF GetWalletAddress
    <2>2. allowed \in BOOLEAN
      OBVIOUS
    <2> HIDE DEF allowed
    <2> QED BY <2>1, <2>2, UseBegin
  <1>4. ASSUME NEW sent \in BOOLEAN, NEW r \in PubkeyRequests, GetExtendedPubkey(r, sent)
        PROVE  UseInv'
    <2> DEFINE malformed == r.display > 1 \/ Len(r.path) > MAX_BIP32_PATH_STEPS
               allowed == ~malformed /\ (r.display = 1 \/ is_path_safe_for_pubkey_export(r.path))
               word == IF malformed THEN "INCORRECT_DATA" ELSE "NOT_SUPPORTED"
    <2>1. Begin(r, NoHeader, sent, malformed, allowed, "export", word)
      BY <1>4 DEF GetExtendedPubkey
    <2>2. allowed \in BOOLEAN
      OBVIOUS
    <2>3. r.cmd # "address"
      BY DEF PubkeyRequests
    <2> HIDE DEF malformed, allowed, word
    <2> QED BY <2>1, <2>2, <2>3, UseBegin
  <1>5. CASE GetMasterFingerprint
    <2> DEFINE r == [cmd |-> "fingerprint"]
    <2>1. Begin(r, NoHeader, TRUE, FALSE, TRUE, "fingerprint", "none")
      BY <1>5 DEF GetMasterFingerprint
    <2>2. r.cmd # "address"
      OBVIOUS
    <2> HIDE DEF r
    <2> QED BY <2>1, <2>2, UseBegin
  <1>6. CASE Quit
    BY <1>6, UseOther
  <1>7. ASSUME NEW s \in Seeds, NEW from_swap \in BOOLEAN, Start(s, from_swap) PROVE UseInv'
    BY <1>7, UseOther
  <1>8. CASE UNCHANGED vars
    <2>1. /\ seed' = seed /\ pc' = pc /\ req' = req /\ hdr' = hdr /\ tpl' = tpl /\ sw' = sw
          /\ disturbed' = disturbed /\ registered' = registered
      BY <1>8 DEF vars, device, locals, told
    <2> QED BY <2>1 DEF UseInv, StageInv, RefusedInv, Presented
  <1> QED
    BY <1>1, <1>2, <1>3, <1>4, <1>5, <1>6, <1>7, <1>8 DEF Next

\* GET_WALLET_ADDRESS never refuses a registered policy with its hmac, under its seed, if the
\* client answers.
THEOREM RegistrationsStayUsable == Spec => []RegisteredIsAccepted
  <1>1. Init => UseInv
    <2> SUFFICES ASSUME Init PROVE UseInv
      OBVIOUS
    <2>1. registered = {} /\ pc = "idle"
      BY DEF Init
    <2> QED BY <2>1 DEF UseInv, StageInv, RefusedInv
  <1>2. UseInv => RegisteredIsAccepted
    BY DEF UseInv, RefusedInv, Presented, RegisteredIsAccepted
  <1> QED BY <1>1, <1>2, NextUse, Invariance, PTL DEF Spec
=============================================================================
