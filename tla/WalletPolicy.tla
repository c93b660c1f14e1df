---------------------------- MODULE WalletPolicy ----------------------------
(***************************************************************************)
(* Serialized wallet policies and what the commands decide from them: the  *)
(* header, the descriptor template it commits to, the keys information,    *)
(* the wallet id and its hmac, and which policies are standard.            *)
(*                                                                         *)
(* A hash stands for what it commits to: the field text of a header is the *)
(* template text (in a V2 header, its sha256), root is the list of keys    *)
(* information (the root of their Merkle tree).  Module ClientProtocol     *)
(* shows that the device accepts nothing else for them.                    *)
(***************************************************************************)
EXTENDS Integers, Sequences

CONSTANTS
  Seeds,             \* of the device: one for each passphrase
  Fingerprint(_),    \* of the master key of a seed
  KeyAt(_, _),       \* the key (with its chain code) of a seed at a path
  BIP0341_NUMS_PUBKEY,
  Templates,         \* trees of module Policy
  Partial,           \* a text that is no template, but the beginning of one
  Parses(_, _),      \* parse_descriptor_template accepts a tree in a version
  DistinctKeys(_),   \* count_distinct_keys_info
  Sane(_, _),        \* is_policy_sane, of a tree and the keys information
  MAX_WALLET_NAME_LENGTH,      \* in words
  MAX_DESCRIPTOR_TEMPLATE_LENGTH_V1, MAX_DESCRIPTOR_TEMPLATE_LENGTH_V2,
  MAX_N_KEYS_IN_WALLET_POLICY,
  MAX_BIP32_PATH_STEPS,
  BIP44_COIN_TYPE, MAX_BIP44_ACCOUNT_RECOMMENDED, MAX_BIP44_ADDRESS_INDEX_RECOMMENDED,
  BIP32_FIRST_HARDENED_CHILD,
  BIP32_PUBKEY_VERSION

ASSUME LimitAssumption == MAX_N_KEYS_IN_WALLET_POLICY \in Nat

-----------------------------------------------------------------------------
(* Derivation paths.  A step is <<number, hardened>>. *)

Hardened(path, n) == \A j \in 1 .. n : path[j][2]
Electrum == <<<<4541509, TRUE>>, <<1112098098, TRUE>>>>
HardenedLength(purpose) == IF purpose = 48 THEN 4 ELSE 3

\* Mutant: taproot accounts are forgotten.
is_path_safe_without_taproot(path) ==
  \/ path = Electrum
  \/ /\ Len(path) >= 3 /\ path[1][1] \in {44, 45, 48, 49, 84}
     /\ LET n == HardenedLength(path[1][1])
        IN  /\ Len(path) >= n /\ Hardened(path, n)
            /\ \A j \in n + 1 .. Len(path) : ~path[j][2]
     /\ path[2][1] = BIP44_COIN_TYPE /\ path[3][1] <= MAX_BIP44_ACCOUNT_RECOMMENDED
     /\ path[1][1] = 48 => path[4][1] \in {1, 2}

is_path_safe_for_pubkey_export(path) ==
  \/ path = Electrum
  \/ /\ Len(path) >= 3 /\ path[1][1] \in {44, 45, 48, 49, 84, 86}
     /\ LET n == HardenedLength(path[1][1])
        IN  /\ Len(path) >= n /\ Hardened(path, n)
            /\ \A j \in n + 1 .. Len(path) : ~path[j][2]
     /\ path[2][1] = BIP44_COIN_TYPE /\ path[3][1] <= MAX_BIP44_ACCOUNT_RECOMMENDED
     /\ path[1][1] = 48 => path[4][1] \in {1, 2}

-----------------------------------------------------------------------------
(* Keys information: [has_origin, fpr, path, wellformed, version, key, suffix].  *)
(* wellformed stands for the hexadecimal digits, the brackets, the numbers of    *)
(* the steps, the length of the key, its base58 encoding and its checksum.       *)

\* The guard of the code lets one step more than the array holds pass.
parse_policy_map_key_info(info, version) ==
  /\ info.wellformed
  /\ info.has_origin => Len(info.path) <= MAX_BIP32_PATH_STEPS + 1
  /\ info.suffix = IF version = 1 THEN "/**" ELSE ""

get_extended_pubkey_at_path(seed, path) ==
  [version |-> BIP32_PUBKEY_VERSION, key |-> KeyAt(seed, path)]

Derives(seed, info) ==
  [version |-> info.version, key |-> info.key] = get_extended_pubkey_at_path(seed, info.path)
HasOriginOf(seed, info) == info.has_origin /\ info.fpr = Fingerprint(seed)

key_type(seed, info) ==
  IF info.key = BIP0341_NUMS_PUBKEY THEN "unspendable"
  ELSE IF HasOriginOf(seed, info) /\ Derives(seed, info) THEN "internal" ELSE "external"

-----------------------------------------------------------------------------
(* Names, as sequences of words; a leading or trailing blank and a byte outside  *)
(* 0x20 .. 0x7E are words of their own.                                          *)

BBN_POLICY_NAMES ==
  <<<<"Consent", "to", "slashing">>, <<"Stake", "/", "Step", "1">>,
    <<"Stake", "/", "Step", "2">>, <<"Stake", "Transfer">>, <<"Unbond">>, <<"Withdraw">>>>

\* memcmp over the length of the name: a name that begins one of the six is that one.
Begins(name, text) == Len(name) <= Len(text) /\ SubSeq(text, 1, Len(name)) = name
get_action_step(name) ==
  LET begun == {s \in 0 .. 5 : Begins(name, BBN_POLICY_NAMES[s + 1])}
  IN  IF begun = {} THEN -1 ELSE CHOOSE s \in begun : \A r \in begun : s <= r

is_policy_name_acceptable(name) ==
  /\ name # <<>> /\ Len(name) <= MAX_WALLET_NAME_LENGTH
  /\ name[1] # "blank" /\ name[Len(name)] # "blank"
  /\ \A j \in DOMAIN name : name[j] # "byte"

-----------------------------------------------------------------------------
(* Template texts: [body, size, extra, starred], a template of size bytes followed  *)
(* by extra bytes; starred when its keys are written with /**.                      *)

Key(j) == [musig |-> FALSE, idx |-> <<j>>, first |-> 0, second |-> 1, ix |-> -1]
Node(t, s, ks, k) == [t |-> t, s |-> s, ks |-> ks, k |-> k]
MultiA(first) ==
  Node("multi_a", <<>>, <<>> \o [j \in 1 .. 9 |-> Key(first + j - 1)], 6)
AndPk(j, script) == Node("and_v", <<Node("pk_k", <<>>, <<Key(j)>>, 0), script>>, <<>>, 0)

BBN_DESCRIPTOR_SLASHING_3 == Node("tr", <<AndPk(1, AndPk(2, MultiA(3)))>>, <<Key(0)>>, 0)
BBN_DESCRIPTOR_STAKE_TRANSFER == Node("tr", <<>>, <<Key(0)>>, 0)
BBN_DESCRIPTOR_UNBOUND == Node("tr", <<AndPk(1, MultiA(2))>>, <<Key(0)>>, 0)
BBN_DESCRIPTOR_WITHDRAW(n) ==
  /\ n.t = "tr" /\ n.ks = <<Key(0)>> /\ Len(n.s) = 1
  /\ n.s[1].t = "and_v" /\ n.s[1].s[1] = Node("pk_k", <<>>, <<Key(1)>>, 0)
  /\ n.s[1].s[2].t = "older"

\* Nothing terminates the text in the buffer that strcmp and memcmp read: whether a text
\* that is all there compares equal depends on the byte that the buffer held before, and a
\* text that is only a beginning may be completed by such bytes.
check_descriptor(text, step) ==
  LET Equals(n) == text.body = n /\ text.starred /\ text.extra = 0
      compared == CASE step \in {0, 1, 2} -> Equals(BBN_DESCRIPTOR_SLASHING_3)
                    [] step = 3 -> Equals(BBN_DESCRIPTOR_STAKE_TRANSFER)
                    [] step = 4 -> Equals(BBN_DESCRIPTOR_UNBOUND)
                    [] OTHER -> FALSE
  IN  IF text.body = Partial \/ compared THEN BOOLEAN
      ELSE {step = 5 /\ text.starred /\ BBN_DESCRIPTOR_WITHDRAW(text.body)}

\* What the first len bytes of the buffer may be.
Readings(text, len) ==
  IF text.body = Partial
  THEN IF len > text.size + text.extra THEN Templates \cup {Partial} ELSE {Partial}
  ELSE IF len = text.size THEN {text.body} ELSE {Partial}

\* The length in the header is not more than the client's preimage.
Filled(h) == h.len <= h.text.size + h.text.extra

-----------------------------------------------------------------------------
(* Headers: [version, name, text, len, n_keys, root]. *)

read_wallet_policy_header(h) ==
  /\ h.version \in {1, 2}
  /\ Len(h.name) <= MAX_WALLET_NAME_LENGTH
  /\ h.len <= IF h.version = 1 THEN MAX_DESCRIPTOR_TEMPLATE_LENGTH_V1
              ELSE MAX_DESCRIPTOR_TEMPLATE_LENGTH_V2
  /\ h.n_keys <= 252

\* Serialized policies: a header, in the bytes that serialize it or in others that read the
\* same (a longer varint, bytes after the end).  A wallet id is the hash of such bytes.
Bytes(h, canonical) == [header |-> h, canonical |-> canonical]

get_policy_wallet_id(h) == Bytes(h, TRUE)

compute_wallet_hmac(seed, id) == <<seed, id>>

\* Mutant: the label's key does not depend on the seed.
check_wallet_hmac_of_any_seed(seed, id, hmac) == hmac \in {<<s, id>> : s \in Seeds}
check_wallet_hmac(seed, id, hmac) == hmac = compute_wallet_hmac(seed, id)

HasKeys(h) == h.n_keys = Len(h.root)

get_bip44_purpose(n) ==
  LET inner == IF n.t = "sh" THEN n.s[1] ELSE n
      key == IF inner.ks = <<>> THEN Key(1) ELSE inner.ks[1]
      plain == /\ ~key.musig /\ key.idx = <<0>> /\ key.first = 0 /\ key.second = 1
  IN  CASE plain /\ n.t = "pkh" -> 44
        [] plain /\ n.t = "wpkh" -> 84
        [] plain /\ n.t = "sh" /\ inner.t = "wpkh" -> 49
        [] plain /\ n.t = "tr" /\ n.s = <<>> -> 86
        [] OTHER -> -1

StandardPath(purpose, path) ==
  /\ Len(path) = 3
  /\ path[1] = <<purpose, TRUE>> /\ path[2] = <<BIP44_COIN_TYPE, TRUE>>
  /\ path[3][2] /\ path[3][1] <= MAX_BIP44_ACCOUNT_RECOMMENDED

is_wallet_policy_standard(seed, h, n) ==
  /\ get_bip44_purpose(n) > 0 /\ h.n_keys = 1 /\ HasKeys(h)
  /\ LET info == h.root[1]
     IN  /\ parse_policy_map_key_info(info, h.version)
         /\ HasOriginOf(seed, info) /\ Derives(seed, info)
         /\ StandardPath(get_bip44_purpose(n), info.path)

is_policy_acceptable(n) == n.t \in {"pkh", "wpkh", "sh", "wsh", "tr"}
=============================================================================
