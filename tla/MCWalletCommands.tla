-------------------------- MODULE MCWalletCommands --------------------------
(* A few policies, keys and paths for WalletCommands, with the parser and  *)
(* the sanity checks of module Policy.                                     *)
EXTENDS WalletCommands, TLC

CONSTANTS s1, s2

P == INSTANCE Policy WITH FIRST_HARDENED <- BIP32_FIRST_HARDENED_CHILD,
                          MAX_TAPTREE_POLICY_DEPTH <- 9

\* Under sh, get_wallet_script makes no script of a single key.
MCEmits(n) == n.t = "sh" => n.s[1].t \notin {"pk", "pkh"}

MCSeeds == {s1, s2}
MCFingerprint(s) == IF s = s1 THEN 1 ELSE 2
MCKeyAt(s, path) == <<s, path>>

-----------------------------------------------------------------------------
(* Templates and texts *)

pkh == Node("pkh", <<>>, <<Key(0)>>, 0)
wpkh == Node("wpkh", <<>>, <<Key(0)>>, 0)
nested == Node("sh", <<wpkh>>, <<>>, 0)
tr == BBN_DESCRIPTOR_STAKE_TRANSFER
single == Node("sh", <<pkh>>, <<>>, 0)
joint == Node("wsh", <<Node("sortedmulti", <<>>, <<Key(0), Key(1)>>, 2)>>, <<>>, 0)
withdraw == Node("tr", <<AndPk(1, Node("older", <<>>, <<>>, 5))>>, <<Key(0)>>, 0)
triple == Node("wsh", <<Node("multi", <<>>, <<Key(0), Key(1), Key(2)>>, 2)>>, <<>>, 0)
second == Node("wpkh", <<>>, <<Key(1)>>, 0)
MCTemplates == {pkh, wpkh, nested, tr, single, joint, withdraw, second,
                triple}

Text(n, size) == [body |-> n, size |-> size, extra |-> 0, starred |-> TRUE]

-----------------------------------------------------------------------------
(* Keys *)

H(n) == <<n, TRUE>>
U(n) == <<n, FALSE>>
Account(purpose, account) == <<H(purpose), H(BIP44_COIN_TYPE), H(account)>>
Own(s, path) ==
  [has_origin |-> TRUE, fpr |-> MCFingerprint(s), path |-> path, wellformed |-> TRUE,
   version |-> BIP32_PUBKEY_VERSION, key |-> MCKeyAt(s, path), suffix |-> ""]
Theirs == [Own(s1, <<>>) EXCEPT !.has_origin = FALSE, !.fpr = 0, !.key = <<"other">>]
Claimed == [Own(s1, <<>>) EXCEPT !.path = Account(84, 0), !.key = <<"other">>]
Dummy == [Theirs EXCEPT !.key = BIP0341_NUMS_PUBKEY]
Starred(infoList) == <<>> \o [j \in DOMAIN infoList |-> [infoList[j] EXCEPT !.suffix = "/**"]]

-----------------------------------------------------------------------------
(* Policies *)

V2(name, text, infoList) ==
  [version |-> 2, name |-> name, text |-> text, len |-> text.size, n_keys |-> Len(infoList),
   root |-> infoList]
V1(name, text, infoList) == [V2(name, text, Starred(infoList)) EXCEPT !.version = 1]
O84 == Own(s1, Account(84, 0))
Shared == <<"Joint">>

\* Policies that may be used without an hmac, and near misses.
Defaults ==
  {V2(<<>>, Text(wpkh, 11), <<O84>>),
   V1(<<>>, Text(pkh, 10), <<Own(s1, Account(44, MAX_BIP44_ACCOUNT_RECOMMENDED))>>),
   V2(<<>>, Text(nested, 15), <<Own(s2, Account(49, 0))>>),
   V2(<<>>, Text(tr, 9), <<Own(s1, Account(86, 0))>>),
   V2(<<>>, Text(wpkh, 11), <<Own(s1, Account(84, MAX_BIP44_ACCOUNT_RECOMMENDED + 1))>>),
   V2(<<>>, Text(wpkh, 11), <<Claimed>>),
   V2(Shared, Text(wpkh, 11), <<O84>>)}

\* Policies to register.
Joint == V2(Shared, Text(joint, 36), <<O84, Theirs>>)
Registrable ==
  {Joint,
   [Joint EXCEPT !.name = <<"Other">>],
   V2(Shared, Text(joint, 36), <<Own(s1, Account(48, 0)), Own(s2, Account(48, 0))>>),
   V1(Shared, Text(joint, 36), <<O84, Theirs>>),
   V2(<<"Withdraw">>, Text(withdraw, 42), <<Dummy, O84>>),
   V2(Shared, Text(single, 14), <<O84>>)}
\* Refused, each for another reason.
Refused ==
  {V2(Shared, Text(joint, 36), <<Claimed, Dummy>>),
   V2(Shared, Text(joint, 36), <<O84, O84>>),
   V1(Shared, Text(joint, 36), <<O84, Own(s1, Account(48, 0))>>),
   V2(<<>>, Text(joint, 36), <<O84, Theirs>>),
   V2(<<"Joint", "blank">>, Text(joint, 36), <<O84, Theirs>>),
   V2(<<"Joint", "byte">>, Text(joint, 36), <<O84, Theirs>>),
   V2(<<"a", "b", "c", "d", "e">>, Text(joint, 36), <<O84, Theirs>>),
   V2(Shared, Text(second, 11), <<O84>>),
   V2(Shared, Text(wpkh, 11), <<[O84 EXCEPT !.wellformed = FALSE]>>),
   [V2(Shared, Text(wpkh, 11), <<O84, Theirs>>) EXCEPT !.n_keys = 1],
   V2(Shared, Text(joint, 36), <<O84, [Theirs EXCEPT !.version = 0]>>),
   V2(Shared, Text(joint, 36), <<O84, [Theirs EXCEPT !.wellformed = FALSE]>>),
   V2(<<"Unbond">>, Text(joint, 36), <<O84, Theirs>>),
   V2(<<"Stake">>, Text(joint, 36), <<O84, Theirs>>),
   V2(Shared, Text(triple, 30), <<O84, Theirs, Dummy>>),
   [Joint EXCEPT !.n_keys = 3], [Joint EXCEPT !.n_keys = 253],
   [Joint EXCEPT !.version = 3], [Joint EXCEPT !.len = 513],
   [V1(Shared, Text(joint, 36), <<O84, Theirs>>) EXCEPT !.len = 41, !.text.extra = 5]}
\* Texts longer or shorter than the header says.
Odd ==
  {[Joint EXCEPT !.text.extra = 1],
   [Joint EXCEPT !.len = 37],
   V2(<<"Stake", "Transfer">>, Text(tr, 9), <<O84>>),
   [Joint EXCEPT !.text.body = Partial, !.text.size = 30]}

MCHeaders == Registrable \cup Refused \cup Odd
MCIds == {Bytes(h, TRUE) : h \in Defaults \cup Registrable \cup Odd}
           \cup {Bytes(h, FALSE) : h \in {Joint, V2(<<>>, Text(wpkh, 11), <<O84>>)}}
           \cup {Bytes([Joint EXCEPT !.version = 3], TRUE)}

MCPaths ==
  {<<>>, Electrum, Account(84, 0), Account(86, 0) \o <<U(0), U(1)>>, Account(84, 0) \o <<H(0)>>,
   Account(84, MAX_BIP44_ACCOUNT_RECOMMENDED + 1), Account(48, 0), Account(48, 0) \o <<H(2)>>,
   Account(48, 0) \o <<H(3)>>, <<H(84), H(BIP44_COIN_TYPE + 1), H(0)>>, Account(13, 0),
   <<H(44), H(BIP44_COIN_TYPE), U(0)>>, <<H(44)>>,
   Account(84, 0) \o <<U(0), U(0), U(0), U(0), U(0), U(0)>>}

-----------------------------------------------------------------------------
(* The parser and the checks of module Policy, as tables. *)

Parsed == {<<n, v>> \in MCTemplates \X {1, 2} : P!parse_descriptor_template(n, v)}
MCParses(n, version) == <<n, version>> \in Parsed
Counts == [n \in MCTemplates |-> P!count_distinct_keys_info(n)]
MCDistinctKeys(n) == Counts[n]
Lists == {h.root : h \in MCHeaders}
Pubs(list) == <<>> \o [j \in DOMAIN list |-> [pub |-> list[j].key]]
SaneLists == {<<n, list>> \in MCTemplates \X Lists :
                Counts[n] <= Len(list) /\ P!is_policy_sane(n, Pubs(list))}
MCSane(n, list) == <<n, list>> \in SaneLists
=============================================================================
