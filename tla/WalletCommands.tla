--------------------------- MODULE WalletCommands ---------------------------
(***************************************************************************)
(* REGISTER_WALLET, GET_WALLET_ADDRESS, GET_EXTENDED_PUBKEY and            *)
(* GET_MASTER_FINGERPRINT.  The device keeps nothing between commands: a   *)
(* registration is an hmac that the client stores and presents later,      *)
(* perhaps after a restart and under another seed.  The client chooses     *)
(* every request, may refuse any answer, and may present any hmac it was   *)
(* given; the user may approve or reject each screen.                      *)
(***************************************************************************)
EXTENDS WalletPolicy, FiniteSets

CONSTANTS
  Headers,      \* of the policies a client may send
  Ids,          \* serialized policies whose hashes it may send as wallet ids
  Paths,        \* of the public keys it may ask for
  Indexes, Changes,    \* of the addresses
  Emits(_),     \* get_wallet_script makes a script of the template
  MAX_HMACS     \* registrations, at most

NoHmac == <<"zeros">>
Stack == <<"stack">>      \* what a buffer holds that nothing was written to

VARIABLES
  lib,          \* the user interface of the device: "bagl" or "nbgl"
  seed,
  swap,         \* G_swap_state.called_from_swap
  pc, req,      \* where the handler is, and the request it serves
  hdr,          \* wallet_header
  tpl,          \* the template parsed
  infos,        \* keys_info and keys_type, as far as they were fetched
  is_default,   \* is_wallet_default
  approved,     \* the screens approved in this command, in order
  sw, reply,    \* status word and data of the last response
  disturbed,    \* history: the client or a key derivation failed in this command
  hmacs,        \* the hmacs the client was given
  registered    \* history: each registration, with the screens approved for it

locals == <<req, hdr, tpl, infos, is_default, approved>>
device == <<lib, seed, swap>>
told == <<hmacs, registered>>
vars == <<device, pc, locals, sw, reply, disturbed, told>>

None == <<>>
NoHeader ==
  [version |-> 0, name |-> <<>>, len |-> 0, n_keys |-> 0, root |-> <<>>,
   text |-> [body |-> Partial, size |-> 0, extra |-> 0, starred |-> FALSE]]

AllHeaders == Headers \cup {NoHeader} \cup {id.header : id \in Ids}
AllInfos == UNION {{h.root[j] : j \in DOMAIN h.root} : h \in AllHeaders}

ASSUME HeadersAssumption ==
  \A h \in AllHeaders : /\ h.root \in Seq(AllInfos) /\ h.n_keys \in Nat
                        /\ h.len \in Nat /\ h.text.size \in Nat /\ h.text.extra \in Nat
                        /\ h.text.body \in Templates \cup {Partial}

Init ==
  /\ lib \in {"bagl", "nbgl"} /\ seed \in Seeds /\ swap \in BOOLEAN
  /\ pc = "idle" /\ req = [cmd |-> "none"] /\ hdr = NoHeader /\ tpl = Partial
  /\ infos = <<>> /\ is_default = FALSE /\ approved = <<>>
  /\ sw = "none" /\ reply = None /\ disturbed = FALSE
  /\ hmacs = {} /\ registered = {}

\* SEND_SW, SEND_RESPONSE, and a step that goes on.
Return(word, data) == pc' = "done" /\ sw' = word /\ reply' = data /\ UNCHANGED disturbed
Refuse(word) == Return(word, None)
Continue(where) == pc' = where /\ UNCHANGED <<sw, reply, disturbed>>

\* The client sends too little, has no answer or a wrong one, or no key can be derived.
Fails(word) == pc' = "done" /\ sw' = word /\ reply' = None /\ disturbed' = TRUE

\* A request arrives, all of it or not, and its handler accepts it or not; early when it may
\* refuse it before it reads the part that is missing.
Begin(r, h, sent, early, accepted, where, word) ==
  /\ pc = "idle" /\ tpl' = Partial /\ infos' = <<>>
  /\ req' = (IF sent /\ accepted THEN r ELSE [cmd |-> "none"])
  /\ hdr' = (IF sent /\ accepted THEN h ELSE NoHeader)
  /\ is_default' = FALSE /\ approved' = <<>> /\ reply' = None
  /\ disturbed' = ~sent
  /\ IF ~sent
     THEN /\ pc' = "done"
          /\ sw' \in {"WRONG_DATA_LENGTH"} \cup IF early THEN {word} ELSE {}
     ELSE IF accepted THEN pc' = where /\ sw' = "none"
     ELSE pc' = "done" /\ sw' = word
  /\ UNCHANGED <<device, told>>

-----------------------------------------------------------------------------
(* The policy, for both commands: read_and_parse_wallet_policy *)

RegisterWallet(h, sent) ==
  /\ Cardinality(hmacs) < MAX_HMACS
  /\ Begin([cmd |-> "register", header |-> h], h, sent, TRUE,
           read_wallet_policy_header(h), "template", "INCORRECT_DATA")

GetWalletAddress(r, sent) ==
  Begin(r, NoHeader, sent, r.change \notin {0, 1},
        r.change \in {0, 1} /\ r.index < BIP32_FIRST_HARDENED_CHILD,
        "policy", "INCORRECT_DATA")

\* call_get_preimage of the wallet id.
PolicyReceived ==
  /\ pc = "policy"
  /\ \/ Fails("INCORRECT_DATA") /\ UNCHANGED hdr
     \/ /\ hdr' = req.id.header
        /\ IF read_wallet_policy_header(req.id.header) THEN Continue("template")
           ELSE Refuse("INCORRECT_DATA")
  /\ UNCHANGED <<device, req, tpl, infos, is_default, approved, told>>

Described ==
  IF get_action_step(hdr.name) > 0
  THEN check_descriptor(hdr.text, get_action_step(hdr.name)) ELSE {TRUE}

TemplateReceived ==
  /\ pc = "template"
  /\ \/ hdr.version = 2 /\ Fails("INCORRECT_DATA") /\ UNCHANGED tpl
     \/ \E described \in Described, t \in Readings(hdr.text, hdr.len) :
          IF described /\ t # Partial /\ Parses(t, hdr.version)
          THEN tpl' = t /\ Continue(IF req.cmd = "register" THEN "checks" ELSE "access")
          ELSE tpl' = Partial /\ Refuse("INCORRECT_DATA")
  /\ UNCHANGED <<device, req, hdr, infos, is_default, approved, told>>

-----------------------------------------------------------------------------
(* REGISTER_WALLET *)

\* To compare them, is_policy_sane fetches every key, unless there is only one; so do the loop
\* below and get_wallet_script.
KeysAreSane ==
  /\ \/ hdr.n_keys = 1
     \/ /\ HasKeys(hdr)
        /\ \A j \in DOMAIN hdr.root : parse_policy_map_key_info(hdr.root[j], hdr.version)
  /\ Sane(tpl, hdr.root)

FitsArrays == hdr.n_keys <= MAX_N_KEYS_IN_WALLET_POLICY

RegisterChecks ==
  /\ pc = "checks"
  /\ IF ~FitsArrays THEN Refuse("NOT_SUPPORTED")
     ELSE IF DistinctKeys(tpl) # hdr.n_keys \/ ~is_policy_name_acceptable(hdr.name)
     THEN Refuse("INCORRECT_DATA")
     ELSE IF ~is_policy_acceptable(tpl) THEN Refuse("NOT_SUPPORTED")
     ELSE \/ Fails("NOT_SUPPORTED")
          \/ IF KeysAreSane THEN Continue("keys") ELSE Refuse("NOT_SUPPORTED")
  /\ UNCHANGED <<device, locals, told>>

Fetched(info) == Append(infos, [info |-> info, type |-> key_type(seed, info)])

KeyReceived ==
  /\ pc = "keys" /\ Len(infos) < hdr.n_keys
  /\ LET info == hdr.root[Len(infos) + 1]
         accepted == /\ HasKeys(hdr) /\ parse_policy_map_key_info(info, hdr.version)
                     /\ info.version = BIP32_PUBKEY_VERSION
     IN  \/ Fails("INCORRECT_DATA") /\ UNCHANGED infos
         \/ /\ accepted /\ info.key # BIP0341_NUMS_PUBKEY /\ HasOriginOf(seed, info)
            /\ Fails("BAD_STATE") /\ UNCHANGED infos
         \/ accepted /\ infos' = Fetched(info) /\ Continue("keys")
         \/ ~accepted /\ UNCHANGED infos /\ Refuse("INCORRECT_DATA")
  /\ UNCHANGED <<device, req, hdr, tpl, is_default, approved, told>>

Internal == {j \in DOMAIN infos : infos[j].type = "internal"}
n_internal_keys == Cardinality(Internal)

\* Mutant: a policy without an internal key can be registered.
InternalIfV1 == hdr.version = 1 => n_internal_keys = 1
EnoughInternal == n_internal_keys >= 1 /\ (hdr.version = 1 => n_internal_keys = 1)

KeysReceived ==
  /\ pc = "keys" /\ Len(infos) = hdr.n_keys
  /\ IF EnoughInternal THEN Continue("review") ELSE Refuse("INCORRECT_DATA")
  /\ UNCHANGED <<device, locals, told>>

\* The screens of a registration.
PolicyScreen(h, t) == <<"policy", h.name, t>>
KeyScreen(j, entry) == <<"key", j, entry.info, entry.type>>
Review(h, t, entries) ==
  <<PolicyScreen(h, t)>> \o [j \in 1 .. Len(entries) |-> KeyScreen(j, entries[j])]

\* Mutant: the last key is not shown.
ReviewOverEarly == Len(approved) >= hdr.n_keys
ReviewOver == Len(approved) = hdr.n_keys + 1

\* One more screen on a device with buttons; a touch screen shows all pages as one review.
Approve ==
  IF lib = "nbgl" THEN Review(hdr, tpl, infos)
  ELSE Append(approved, IF approved = <<>> THEN PolicyScreen(hdr, tpl)
                        ELSE KeyScreen(Len(approved), infos[Len(approved)]))

ReviewScreen ==
  /\ pc = "review" /\ ~ReviewOver
  /\ \/ Refuse("DENY") /\ UNCHANGED approved
     \/ approved' = Approve /\ Continue("review")
  /\ UNCHANGED <<device, req, hdr, tpl, infos, is_default, told>>

\* The result of compute_wallet_hmac is not looked at: if it could not derive its key, the
\* hmac of the response was never written.
Registered ==
  /\ pc = "review" /\ ReviewOver
  /\ \E hmac \in {compute_wallet_hmac(seed, get_policy_wallet_id(hdr)), Stack} :
       /\ Return("OK", <<"registered", get_policy_wallet_id(hdr), hmac>>)
       /\ hmacs' = hmacs \cup {hmac}
       /\ registered' = registered \cup
            {[hmac |-> hmac, seed |-> seed, header |-> hdr, tpl |-> tpl, review |-> approved]}
  /\ UNCHANGED <<device, locals>>

-----------------------------------------------------------------------------
(* GET_WALLET_ADDRESS *)

IdMatches == get_policy_wallet_id(hdr) = req.id
DefaultAllowed ==
  /\ is_wallet_policy_standard(seed, hdr, tpl) /\ hdr.name = <<>>
  /\ req.index <= MAX_BIP44_ADDRESS_INDEX_RECOMMENDED

\* The key of a default policy is fetched.
DefaultAccess ==
  /\ pc = "access" /\ req.hmac = NoHmac
  /\ \/ Fails("INCORRECT_DATA") /\ UNCHANGED is_default
     \/ /\ is_default' = DefaultAllowed
        /\ IF DefaultAllowed /\ IdMatches THEN Continue("script") ELSE Refuse("INCORRECT_DATA")
  /\ UNCHANGED <<device, req, hdr, tpl, infos, approved, told>>

\* Mutant: the limit of default policies is put on registered ones.
HmacAndIndex ==
  /\ check_wallet_hmac(seed, req.id, req.hmac)
  /\ req.index <= MAX_BIP44_ADDRESS_INDEX_RECOMMENDED
HmacAccepted == check_wallet_hmac(seed, req.id, req.hmac)

\* From a swap the command ends the app.
RegisteredAccess ==
  /\ pc = "access" /\ req.hmac # NoHmac
  /\ IF ~HmacAccepted THEN Refuse("SIGNATURE_FAIL")
     ELSE IF swap THEN pc' = "ended" /\ sw' = "FAIL_SWAP" /\ UNCHANGED <<reply, disturbed>>
     ELSE IF IdMatches THEN Continue("script") ELSE Refuse("INCORRECT_DATA")
  /\ UNCHANGED <<device, locals, told>>

\* The script of the policy at this place of its chain, which stands for the address.
Address == <<"address", tpl, hdr.root, req.change, req.index>>
AddressScreen == <<IF is_default THEN None ELSE <<hdr.name>>, Address>>

ScriptMade ==
  /\ pc = "script"
  /\ \/ Fails("BAD_STATE")
     \/ IF ~(HasKeys(hdr) /\ Emits(tpl)) THEN Refuse("BAD_STATE")
        ELSE IF req.display THEN Continue("show") ELSE Return("OK", Address)
  /\ UNCHANGED <<device, locals, told>>

AddressShown ==
  /\ pc = "show"
  /\ \/ Refuse("DENY") /\ UNCHANGED approved
     \/ approved' = <<AddressScreen>> /\ Return("OK", Address)
  /\ UNCHANGED <<device, req, hdr, tpl, infos, is_default, told>>

-----------------------------------------------------------------------------
(* GET_EXTENDED_PUBKEY and GET_MASTER_FINGERPRINT *)

Xpub == <<"xpub", get_extended_pubkey_at_path(seed, req.path)>>

\* Mutant: the flow with the warning is never used.
PlainScreen(path) == <<"pubkey", path, FALSE>>
PubkeyScreen(path) == <<"pubkey", path, ~is_path_safe_for_pubkey_export(path)>>

GetExtendedPubkey(r, sent) ==
  LET malformed == r.display > 1 \/ Len(r.path) > MAX_BIP32_PATH_STEPS
  IN  Begin(r, NoHeader, sent, malformed,
            ~malformed /\ (r.display = 1 \/ is_path_safe_for_pubkey_export(r.path)),
            "export", IF malformed THEN "INCORRECT_DATA" ELSE "NOT_SUPPORTED")

PubkeyMade ==
  /\ pc = "export"
  /\ \/ Fails("BAD_STATE") /\ UNCHANGED approved
     \/ req.display = 0 /\ Return("OK", Xpub) /\ UNCHANGED approved
     \/ req.display = 1 /\ Refuse("DENY") /\ UNCHANGED approved
     \/ req.display = 1 /\ approved' = <<PubkeyScreen(req.path)>> /\ Return("OK", Xpub)
  /\ UNCHANGED <<device, req, hdr, tpl, infos, is_default, told>>

GetMasterFingerprint ==
  Begin([cmd |-> "fingerprint"], NoHeader, TRUE, FALSE, TRUE, "fingerprint", "none")

FingerprintMade ==
  /\ pc = "fingerprint"
  /\ \/ Fails("BAD_STATE")
     \/ Return("OK", <<"fingerprint", Fingerprint(seed)>>)
  /\ UNCHANGED <<device, locals, told>>

-----------------------------------------------------------------------------

\* The frame of the handler is gone, and so are the screens.
Gone(where) ==
  /\ pc' = where /\ req' = [cmd |-> "none"] /\ hdr' = NoHeader /\ tpl' = Partial
  /\ infos' = <<>> /\ is_default' = FALSE /\ approved' = <<>>
  /\ sw' = "none" /\ reply' = None /\ disturbed' = FALSE

\* The handler returned and its response was sent.
Sent == pc = "done" /\ Gone("idle") /\ UNCHANGED <<device, told>>

\* The app ends at any moment; when it starts again, a passphrase may give it another seed.
Quit == pc # "off" /\ Gone("off") /\ UNCHANGED <<device, told>>
Start(s, from_swap) ==
  /\ pc = "off" /\ pc' = "idle" /\ seed' = s /\ swap' = from_swap
  /\ UNCHANGED <<lib, locals, sw, reply, disturbed, told>>

AddressRequests ==
  [cmd : {"address"}, id : Ids, hmac : hmacs \cup {NoHmac, Stack}, display : BOOLEAN,
   change : Changes, index : Indexes]
PubkeyRequests == [cmd : {"pubkey"}, path : Paths, display : 0 .. 2]

Step ==
  \/ PolicyReceived \/ TemplateReceived
  \/ RegisterChecks \/ KeyReceived \/ KeysReceived \/ ReviewScreen \/ Registered
  \/ DefaultAccess \/ RegisteredAccess \/ ScriptMade \/ AddressShown
  \/ PubkeyMade \/ FingerprintMade \/ Sent

Next ==
  \/ Step
  \/ pc = "idle" /\ \E h \in Headers, sent \in BOOLEAN : RegisterWallet(h, sent)
  \/ pc = "idle" /\ \E sent \in BOOLEAN, r \in AddressRequests : GetWalletAddress(r, sent)
  \/ pc = "idle" /\ \E sent \in BOOLEAN, r \in PubkeyRequests : GetExtendedPubkey(r, sent)
  \/ GetMasterFingerprint
  \/ Quit
  \/ \E s \in Seeds, from_swap \in BOOLEAN : Start(s, from_swap)

Spec == Init /\ [][Next]_vars
-----------------------------------------------------------------------------
(* Properties *)

Pcs == {"idle", "policy", "template", "checks", "keys", "review", "access", "script", "show",
        "export", "fingerprint", "done", "ended", "off"}
Words == {"none", "OK", "DENY", "WRONG_DATA_LENGTH", "INCORRECT_DATA", "NOT_SUPPORTED",
          "BAD_STATE", "SIGNATURE_FAIL", "FAIL_SWAP"}

\* The variables have their types; in particular the handler of REGISTER_WALLET never fetches
\* more keys than its arrays of MAX_N_KEYS_IN_WALLET_POLICY hold.
TypeOK ==
  /\ lib \in {"bagl", "nbgl"} /\ seed \in Seeds /\ swap \in BOOLEAN
  /\ pc \in Pcs /\ sw \in Words
  /\ hdr \in AllHeaders
  /\ tpl \in Templates \cup {Partial} /\ is_default \in BOOLEAN /\ disturbed \in BOOLEAN
  /\ DOMAIN infos \in {1 .. n : n \in 0 .. MAX_N_KEYS_IN_WALLET_POLICY}

\* A registration is what the user saw: the keys that the header commits to, each with the
\* type it has for this seed.
Entries(s, h) == [j \in 1 .. Len(h.root) |-> [info |-> h.root[j], type |-> key_type(s, h.root[j])]]

\* The device gives an hmac only for a policy whose name and template, and every one of whose
\* keys, in order and with its type, the user approved in that very command (register_wallet.c:
\* the keys are fetched twice and shown one by one, and any screen can be rejected).
HmacIsReviewed ==
  /\ \A r \in registered :
       /\ r.review = Review(r.header, r.tpl, Entries(r.seed, r.header))
       /\ r.header.n_keys = Len(r.header.root)
  /\ \A hmac \in hmacs : hmac # Stack =>
       \E r \in registered : hmac = compute_wallet_hmac(r.seed, get_policy_wallet_id(r.header))

GivesAddress == reply # None /\ reply[1] = "address"

\* An address that GET_WALLET_ADDRESS returns under a name belongs to a policy that the user
\* approved in an earlier command, under this seed: with this name, these keys, and the template
\* the address is made of.  (The template is what the header's length takes from the buffer: if
\* the client's text is shorter than that, no hash covers it.)  It was shown with that name.
AddressWasReviewed ==
  GivesAddress /\ ~is_default =>
    /\ \E r \in registered :
         /\ r.seed = seed
         /\ \E t \in Templates : /\ r.review = Review(hdr, t, Entries(seed, hdr))
                                 /\ Filled(hdr) => t = reply[2]
    /\ reply[3] = hdr.root
    /\ req.display => approved = <<<<<<hdr.name>>, reply>>>>

\* Every address that the device returns pays to a policy in which this seed holds a key, at
\* the path that the key's origin gives.
AddressIsOurs ==
  GivesAddress => \E j \in DOMAIN hdr.root : Derives(seed, hdr.root[j]) /\ hdr.root[j].has_origin

\* The key of every default policy can be exported without a screen: a client can find the
\* addresses of all policies that need no registration (is_wallet_policy_standard in policy.c and
\* is_path_safe_for_pubkey_export in get_extended_pubkey.c agree).  No name is shown for them.
DefaultIsExportable ==
  GivesAddress /\ is_default =>
    /\ is_path_safe_for_pubkey_export(hdr.root[1].path)
    /\ req.display => approved = <<<<None, reply>>>>

\* An extended public key leaves the device without a screen only at or below an account of
\* this coin, so that it gives away no other account; any other is shown with a warning.
AccountOrBelow(path) ==
  \E n \in 3 .. 4 : /\ Len(path) >= n /\ Hardened(path, n)
                    /\ \A j \in n + 1 .. Len(path) : ~path[j][2]
                    /\ path[2][1] = BIP44_COIN_TYPE
                    /\ path[3][1] <= MAX_BIP44_ACCOUNT_RECOMMENDED
ExportIsConfirmed ==
  reply # None /\ reply[1] = "xpub" =>
    \/ req.path = Electrum \/ AccountOrBelow(req.path)
    \/ approved = <<<<"pubkey", req.path, TRUE>>>>

\* A policy that was registered with a real hmac stays usable under its seed, whatever happened
\* in between: GET_WALLET_ADDRESS with that hmac ends in an address or in the user's refusal, if
\* the client answers and the script can be made.  Not so for names that begin one of the names
\* of a Babylon step, whose template is compared with an unterminated buffer.
RegisteredIsAccepted ==
  /\ pc = "done" /\ req.cmd = "address" /\ ~disturbed /\ sw \notin {"OK", "DENY"}
  => \A r \in registered :
       ~ /\ r.seed = seed /\ r.hmac # Stack /\ r.hmac = req.hmac
         /\ req.id = get_policy_wallet_id(r.header)
         /\ Filled(r.header) /\ Emits(r.tpl) /\ get_action_step(r.header.name) < 1

=============================================================================
