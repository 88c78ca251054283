------------------------------ MODULE KeyMerge ------------------------------
(***************************************************************************)
(* Importing a key that the keyring may hold already: import_one of        *)
(* g10/import.c cleans the keyblock of a file and either inserts it or     *)
(* merges it with the keyblock of the keyring, and merge_selfsigs of       *)
(* g10/getkey.c derives from the self-signatures of the result what the    *)
(* key is worth: revoked, expired, its primary user id, its subkeys.       *)
(*                                                                         *)
(* What the owner says about the key reaches the keyring in pieces, in     *)
(* files of different age, in any order and more than once; some are       *)
(* damaged.  Nothing of it may depend on the order.                        *)
(*                                                                         *)
(* One key is followed.  A keyblock is the signatures at its head, its     *)
(* user ids and its subkeys, each with the signatures that follow it.  A   *)
(* signature is a record; two are the same (cmp_signatures) when the       *)
(* records are equal.  Ownertrust is the matter of WebOfTrust.  So is what *)
(* may come between reading the keyblock and writing it back the matter of *)
(* Keyring: an import is one step here, up to the mark for the web of      *)
(* trust, which follows the write.                                         *)
(***************************************************************************)
EXTENDS Naturals, FiniteSets, Sequences, SequencesExt, Functions

CONSTANTS File,   \* the keyblocks that files hold
          Cert,   \* the revocation certificates that files hold
          Moment  \* when the key is looked at

VARIABLES ring,    \* what the keyring holds of the key: no keyblock, or one
          marking, \* the import has written and is about to call revalidation_mark
          marked,  \* pending_check_trustdb: the web of trust is out of date
          told,    \* history: the keyblocks that were imported,
          certs,   \* and the revocation certificates
          unseen   \* history: certificates of others have come since the last check

vars == <<ring, marking, marked, told, certs, unseen>>

-----------------------------------------------------------------------------
(* Signatures.  Classes: direct 0x1f, keyrev 0x20, uidsig 0x10 to 0x13,    *)
(* uidrev 0x30, bind 0x18, subrev 0x28.                                    *)

(* User ids and subkeys are numbers, the former in the order of            *)
(* cmp_user_ids; the key itself is this one.                               *)
Key == 0

OnUid(s) == s.class \in {"uidsig", "uidrev"}
OnSubkey(s) == s.class \in {"bind", "subrev"}
Self(s) == s.by = "self"

(* check_key_signature of a self-signature found after the packet p.       *)
Verifies(s, p) == Self(s) /\ s.good /\ s.on = p

(* The place of the newest of the signatures that pass, the last of equals. *)
Newest(sigs, Pass(_)) ==
  CHOOSE i \in DOMAIN sigs :
    /\ Pass(sigs[i])
    /\ \A j \in DOMAIN sigs :
         Pass(sigs[j]) => sigs[j].time < sigs[i].time
                          \/ (sigs[j].time = sigs[i].time /\ j <= i)
Some(sigs, Pass(_)) == \E i \in DOMAIN sigs : Pass(sigs[i])

(* The elements of s at the places in I, in their order.                   *)
Picked(s, I) == FlattenSeq([i \in DOMAIN s |-> IF i \in I THEN <<s[i]>> ELSE <<>>])

(* The part of a keyblock with this id, and whether there is one.          *)
Has(parts, id) == \E i \in DOMAIN parts : parts[i].id = id
PartOf(parts, id) == parts[CHOOSE i \in DOMAIN parts : parts[i].id = id]

-----------------------------------------------------------------------------
(* Cleaning the keyblock of a file.                                        *)

(* The places where something is there for the first time.                 *)
Firsts(s) == {i \in DOMAIN s : \A j \in 1 .. i - 1 : s[j] # s[i]}

Deduped_Not(sigs) == sigs
(* The first of equal signatures stays.                                    *)
Deduped(sigs) == Picked(sigs, Firsts(sigs))

(* No other user id of the file is the same.                               *)
Lone(uids, i) == \A j \in DOMAIN uids : uids[j].id = uids[i].id => j = i

(* A user id takes the signatures of its later duplicates, each in front   *)
(* of those it has, and is rid of double ones.  One that has no duplicate  *)
(* stays as it is.                                                         *)
Collapsed(uids) ==
  LET ids == [i \in DOMAIN uids |-> uids[i].id]
      all(id) == FlattenSeq(Reverse([i \in DOMAIN uids |->
                   IF ids[i] = id THEN uids[i].sigs ELSE <<>>]))
  IN Picked([i \in DOMAIN uids |->
               IF Lone(uids, i) THEN uids[i]
               ELSE [id |-> ids[i], sigs |-> Deduped(all(ids[i]))]], Firsts(ids))

(* Flag 1 of a user id: the owner has signed or revoked it.                *)
SelfSigned(u) == Some(u.sigs, LAMBDA s : OnUid(s) /\ Verifies(s, u.id))
(* Flag 1 of a subkey: the owner has bound it.                             *)
Bound(k) == Some(k.sigs, LAMBDA s : s.class = "bind" /\ Verifies(s, k.id))

(* delete_inv_parts, what stays before the user ids and after one: no      *)
(* broken direct signature of the owner, and key revocations only before.  *)
CleanHead(sigs) ==
  Picked(sigs, {i \in DOMAIN sigs : LET s == sigs[i] IN
    /\ ~OnSubkey(s)
    /\ Self(s) /\ s.class \in {"keyrev", "direct"} => Verifies(s, Key)})
CleanUid(u) ==
  [id |-> u.id,
   sigs |-> Picked(u.sigs, {i \in DOMAIN u.sigs : LET s == u.sigs[i] IN
     /\ s.class # "keyrev" /\ ~OnSubkey(s)
     /\ Self(s) /\ s.class = "direct" => Verifies(s, Key)})]

(* chk_self_sigs keeps the newest binding of a subkey and its newest       *)
(* revocation, and marks the others and broken direct signatures for       *)
(* deletion.                                                               *)
CleanSubkey(k) ==
  LET counts(c, s) == s.class = c /\ Verifies(s, k.id)
      newest(c) == Newest(k.sigs, LAMBDA s : counts(c, s))
      keep == {i \in DOMAIN k.sigs :
                 LET s == k.sigs[i] IN
                 /\ s.class # "keyrev"
                 /\ Self(s) /\ s.class = "direct" => Verifies(s, Key)
                 /\ Self(s) /\ OnSubkey(s) =>
                      counts(s.class, s) /\ i = newest(s.class)}
  IN [id |-> k.id, sigs |-> Picked(k.sigs, keep)]

Map(Op(_), parts) == [i \in DOMAIN parts |-> Op(parts[i])]

Clean(f) ==
  LET uids == Collapsed(f.uids)
      signed == {i \in DOMAIN uids : SelfSigned(uids[i])}
      bound == {i \in DOMAIN f.subs : Bound(f.subs[i])}
  IN [head |-> CleanHead(f.head),
      uids |-> Map(CleanUid, Picked(uids, signed)),
      subs |-> Map(CleanSubkey, Picked(f.subs, bound))]

(* import_one refuses a keyblock in which the owner signs a user id before *)
(* the first, and one that has no user id left.                            *)
Refused(f) ==
  \/ Some(f.head, LAMBDA s : Self(s) /\ OnUid(s))
  \/ Clean(f).uids = <<>>

NonSelf_HeadOnly(f) == Some(f.head, LAMBDA s : ~Self(s))
(* The non_self of chk_self_sigs.                                          *)
NonSelf(f) ==
  \E p \in {[id |-> Key, sigs |-> f.head]} \cup ToSet(f.uids) \cup ToSet(f.subs) :
    Some(p.sigs, LAMBDA s : ~Self(s))

-----------------------------------------------------------------------------
(* Merging it with the keyblock of the keyring.                            *)

(* fix_bad_direct_key_sigs: those of other keys fail as well, since        *)
(* check_key_signature tries every direct signature with the key itself.   *)
FixedHead(sigs) ==
  Picked(sigs, {i \in DOMAIN sigs : sigs[i].class = "direct" => Verifies(sigs[i], Key)})

(* Every new signature of the class goes to the front, one by one; the     *)
(* next ones are compared with it too.                                     *)
HeadMerged(old, new, class) ==
  LET fresh == {i \in Firsts(new) : new[i].class = class /\ ~Contains(old, new[i])}
  IN Reverse(Picked(new, fresh)) \o old

(* merge_sigs: the same on a user id, at the end.                          *)
SigsMerged(old, new) ==
  old \o Picked(new, {i \in Firsts(new) : ~OnSubkey(new[i]) /\ ~Contains(old, new[i])})

Known_AnyClass(s, sigs) ==
  Some(sigs, LAMBDA r : r.by = s.by /\ s.time <= r.time)
Known_Older(s, sigs) ==
  Some(sigs, LAMBDA r : r.by = s.by /\ r.class = s.class /\ s.time < r.time)
(* merge_keysigs: a signature is known when one of its maker and class is  *)
(* not older.                                                              *)
Known(s, sigs) ==
  Some(sigs, LAMBDA r : r.by = s.by /\ r.class = s.class /\ s.time <= r.time)
KeysigsMerged(old, new) ==
  FoldLeft(LAMBDA sigs, s : IF Known(s, sigs) THEN sigs ELSE Append(sigs, s), old, new)

(* append_uid and append_key: a part that is new, with all its signatures. *)
Appended(old, new) == Picked(new, {i \in DOMAIN new : ~Has(old, new[i].id)})

(* merge_blocks: what both have is merged, what is new is appended.        *)
PartsMerged(old, new, Sigs(_, _)) ==
  Map(LAMBDA p : IF Has(new, p.id)
                 THEN [id |-> p.id, sigs |-> Sigs(p.sigs, PartOf(new, p.id).sigs)]
                 ELSE p, old)
  \o Appended(old, new)

Merged(o, f) ==
  [head |-> HeadMerged(HeadMerged(FixedHead(o.head), f.head, "keyrev"), f.head, "direct"),
   uids |-> PartsMerged(o.uids, f.uids, SigsMerged),
   subs |-> PartsMerged(o.subs, f.subs, KeysigsMerged)]

(* Whether import_one counts something and so writes the result.           *)
Changes(o, f) == Merged(o, f) # o \/ FixedHead(o.head) # o.head

-----------------------------------------------------------------------------
(* What the keyblock of the keyring says at a moment: merge_selfsigs.      *)

Unexpired(s, t) == s.expires = 0 \/ s.expires > t
Expired(date, t) == date # 0 /\ date < t

(* The newest self-signature of a user id, expired or not.                 *)
Selfsig(u) == u.sigs[Newest(u.sigs, LAMBDA s : OnUid(s) /\ Verifies(s, u.id))]

(* fixup_uidnode: what it says of the user id.                             *)
UidInfo(u, t) ==
  LET s == Selfsig(u)
      none == [id |-> u.id, state |-> "unsigned", created |-> 0, primary |-> FALSE, keyexp |-> 0]
  IN IF ~SelfSigned(u) THEN none
     ELSE IF s.class = "uidrev" THEN [none EXCEPT !.state = "revoked"]
     ELSE IF ~Unexpired(s, t) THEN [none EXCEPT !.state = "expired"]
     ELSE [id |-> u.id, state |-> "good", created |-> s.time,
           primary |-> s.primary, keyexp |-> s.keyexp]

(* The user id of the latest date, of equals the one that sorts last.      *)
Foremost(infos) ==
  (CHOOSE x \in infos : \A y \in infos :
     y.created < x.created \/ (y.created = x.created /\ y.id <= x.id)).id
PrimaryOf(infos) ==
  LET dated == {x \in infos : x.created > 0}
      flagged == {x \in dated : x.primary}
  IN Foremost(IF flagged # {} THEN flagged ELSE IF dated # {} THEN dated ELSE infos)

(* A revocation by the key, or by a key that a direct signature names.     *)
Revoked(head) ==
  \/ Some(head, LAMBDA s : s.class = "keyrev" /\ Verifies(s, Key))
  \/ /\ Some(head, LAMBDA s : s.class = "direct" /\ Verifies(s, Key) /\ s.revoker)
     /\ Some(head, LAMBDA s : s.class = "keyrev" /\ s.by = "revoker" /\ s.good)

(* The newest direct signature precedes the newest user id with a date;    *)
(* of two user ids that are equally new the first in the keyblock counts.  *)
KeyExpiry(head, infos, t) ==
  LET direct(s) == s.class = "direct" /\ Verifies(s, Key) /\ Unexpired(s, t)
      ends == {i \in DOMAIN infos : infos[i].keyexp # 0}
      first == CHOOSE i \in ends : \A j \in ends :
                 infos[j].created < infos[i].created
                 \/ (infos[j].created = infos[i].created /\ i <= j)
  IN IF Some(head, direct) /\ head[Newest(head, direct)].keyexp # 0
     THEN head[Newest(head, direct)].keyexp
     ELSE IF ends = {} THEN 0 ELSE infos[first].keyexp

(* A revoked subkey stays so whatever the dates; it is used as the newest  *)
(* binding that has not expired says.                                      *)
SubkeyInfo(k, t) ==
  LET binds(s) == s.class = "bind" /\ Verifies(s, k.id) /\ Unexpired(s, t)
  IN [id |-> k.id,
      revoked |-> Some(k.sigs, LAMBDA s : s.class = "subrev" /\ Verifies(s, k.id)),
      valid |-> Some(k.sigs, binds),
      keyexp |-> IF Some(k.sigs, binds) THEN k.sigs[Newest(k.sigs, binds)].keyexp ELSE 0]

(* The flags of the primary key spread to the subkeys.                     *)
Effective(b, t) ==
  LET infos == Map(LAMBDA u : UidInfo(u, t), b.uids)
      subs == ToSet(Map(LAMBDA k : SubkeyInfo(k, t), b.subs))
      revoked == Revoked(b.head)
      expired == Expired(KeyExpiry(b.head, infos, t), t)
  IN [revoked |-> revoked, expired |-> expired,
      primary |-> PrimaryOf(ToSet(infos)),
      uids |-> {<<x.id, x.state>> : x \in ToSet(infos)},
      subs |-> {[id |-> k.id, valid |-> k.valid, revoked |-> k.revoked \/ revoked,
                 expired |-> Expired(k.keyexp, t) \/ expired] : k \in subs}]

-----------------------------------------------------------------------------
(* The certificates of other keys on the user ids: what the web of trust   *)
(* is computed from.                                                       *)
Foreign(blocks) ==
  UNION {{<<u.id, s>> : s \in {r \in ToSet(u.sigs) : ~Self(r)}} :
           u \in UNION {ToSet(blocks[i].uids) : i \in DOMAIN blocks}}

Init ==
  /\ ring = <<>>
  /\ marking = FALSE /\ marked = FALSE
  /\ told = {} /\ certs = {}
  /\ unseen = FALSE

(* keydb_update_keyblock, keydb_insert_keyblock.                           *)
Write(b, mark) ==
  /\ ring' = <<b>>
  /\ marking' = mark
  /\ unseen' = (unseen \/ Foreign(<<b>>) # Foreign(ring))
Leave == UNCHANGED <<ring, marking, unseen>>

(* import_one: refused, inserted, or merged and written if that changes    *)
(* something.                                                              *)
Refuse(f) ==
  /\ ~marking /\ Refused(f)
  /\ Leave
  /\ told' = told \cup {f}
  /\ UNCHANGED <<certs, marked>>

Insert(f) ==
  /\ ~marking /\ ~Refused(f) /\ ring = <<>>
  /\ Write(Clean(f), NonSelf(f))
  /\ told' = told \cup {f}
  /\ UNCHANGED <<certs, marked>>

Merge(f) ==
  /\ ~marking /\ ~Refused(f) /\ ring # <<>>
  /\ IF Changes(ring[1], Clean(f))
     THEN Write(Merged(ring[1], Clean(f)), NonSelf(f))
     ELSE Leave
  /\ told' = told \cup {f}
  /\ UNCHANGED <<certs, marked>>

(* import_revoke_cert: only for a key that is there, only what it verifies. *)
Revoke(c) ==
  /\ ~marking /\ ring # <<>>
  /\ Verifies(c, Key)
  /\ IF Contains(ring[1].head, c)
     THEN Leave
     ELSE Write([head |-> <<c>> \o ring[1].head,
                 uids |-> ring[1].uids, subs |-> ring[1].subs], TRUE)
  /\ certs' = certs \cup {c}
  /\ UNCHANGED <<told, marked>>

(* revalidation_mark                                                       *)
Mark ==
  /\ marking
  /\ marking' = FALSE /\ marked' = TRUE
  /\ UNCHANGED <<ring, told, certs, unseen>>

(* check_trustdb, with the keyring as it is then; at any time on demand.   *)
Check ==
  /\ ~marking
  /\ marked' = FALSE /\ unseen' = FALSE
  /\ UNCHANGED <<ring, marking, told, certs>>

Next ==
  \/ \E f \in File : Refuse(f) \/ Insert(f) \/ Merge(f)
  \/ \E c \in Cert : Revoke(c)
  \/ Mark \/ Check

Spec == Init /\ [][Next]_vars

-----------------------------------------------------------------------------
(* The reference: what the owner has said, whatever the order.             *)

(* The signatures of the owner on p in the parts of a file.                *)
Said(parts, id) ==
  {s \in UNION {ToSet(q.sigs) : q \in {q \in ToSet(parts) : q.id = id}} : Verifies(s, id)}
Statements(files, part, id) ==
  UNION {Said(IF part = "uids" THEN f.uids ELSE f.subs, id) : f \in files}
Latest(S) == CHOOSE s \in S : \A r \in S : r.time <= s.time

(* The files in which the owner signs some user id; in one that does not,  *)
(* nothing counts.                                                         *)
Authentic(files) ==
  {f \in files : /\ \E u \in ToSet(f.uids) : Said(f.uids, u.id) # {}
                 /\ \A s \in ToSet(f.head) : ~(Self(s) /\ OnUid(s))}

MeaningOfUid(files, id, t) ==
  LET s == Latest(Statements(files, "uids", id))
  IN IF s.class = "uidrev" THEN "revoked"
     ELSE IF Unexpired(s, t) THEN "good" ELSE "expired"

(* A revocation of a subkey counts in a file that also binds it.           *)
MeaningOfSubkey(files, id, t) ==
  LET binding == {f \in files : \E s \in Said(f.subs, id) : s.class = "bind"}
      all == Statements(binding, "subs", id)
  IN [id |-> id, valid |-> TRUE,
      revoked |-> \E s \in all : s.class = "subrev",
      expired |-> Expired(Latest({s \in all : s.class = "bind"}).keyexp, t)]

Meaning(t) ==
  LET files == Authentic(told)
      head == certs \cup UNION {ToSet(f.head) : f \in files}
      direct == {s \in head : s.class = "direct" /\ Verifies(s, Key)}
      current == {s \in direct : Unexpired(s, t)}
      uids == {id \in {u.id : u \in UNION {ToSet(f.uids) : f \in files}} :
                 Statements(files, "uids", id) # {}}
      subs == {id \in {k.id : k \in UNION {ToSet(f.subs) : f \in files}} :
                 \E s \in Statements(files, "subs", id) : s.class = "bind"}
      good == {id \in uids : MeaningOfUid(files, id, t) = "good"}
      said == [id \in good |-> Latest(Statements(files, "uids", id))]
      order(S) == CHOOSE i \in S : \A j \in S :
                    said[j].time < said[i].time \/ (said[j].time = said[i].time /\ j <= i)
      ends == {id \in good : said[id].keyexp # 0}
      flagged == {id \in good : said[id].primary}
      date == IF current # {} /\ Latest(current).keyexp # 0 THEN Latest(current).keyexp
              ELSE IF ends = {} THEN 0 ELSE said[order(ends)].keyexp
      revoked == \/ \E s \in head : s.class = "keyrev" /\ Verifies(s, Key)
                 \/ /\ \E s \in direct : s.revoker
                    /\ \E s \in head : s.class = "keyrev" /\ s.by = "revoker" /\ s.good
  IN [revoked |-> revoked, expired |-> Expired(date, t),
      primary |-> IF flagged # {} THEN order(flagged)
                  ELSE IF good # {} THEN order(good)
                  ELSE CHOOSE i \in uids : \A j \in uids : j <= i,
      uids |-> {<<id, MeaningOfUid(files, id, t)>> : id \in uids},
      subs |-> {LET k == MeaningOfSubkey(files, id, t)
                IN [k EXCEPT !.revoked = @ \/ revoked, !.expired = @ \/ Expired(date, t)] :
                  id \in subs}]

-----------------------------------------------------------------------------
Signatures == (UNION {ToSet(f.head) : f \in File})
              \cup (UNION {UNION {ToSet(u.sigs) : u \in ToSet(f.uids \o f.subs)} : f \in File})
              \cup Cert
Parts == [id : {p.id : p \in UNION {ToSet(f.uids \o f.subs) : f \in File}}, sigs : Seq(Signatures)]
Keyblock == [head : Seq(Signatures), uids : Seq(Parts), subs : Seq(Parts)]

ASSUME FileAssumption == File \subseteq Keyblock /\ \A s \in Signatures : s.time \in Nat

(* Types: the keyring holds a keyblock.                                    *)
TypeOK ==
  /\ ring \in Seq(Keyblock) /\ Len(ring) <= 1
  /\ marking \in BOOLEAN /\ marked \in BOOLEAN /\ unseen \in BOOLEAN
  /\ told \subseteq File /\ certs \subseteq Cert

(* The order of imports does not matter: what the keyring says of the key  *)
(* at any moment is what its owner has said in the files imported, the     *)
(* newest statement on each user id and subkey, and every revocation.      *)
(* (The comment in merge_selfsigs_main asks that "two different GnuPG      *)
(* users with two different keyrings at least pick the same primary".)     *)
Confluent ==
  ring # <<>> => \A t \in Moment : Effective(ring[1], t) = Meaning(t)

(* Importing a file again changes nothing, however many others came        *)
(* between; direct signatures of other keys, which every merge drops and   *)
(* some add again, apart.                                                  *)
Idempotent ==
  ring # <<>> =>
    \A f \in told : ~Refused(f) =>
      LET again == Merged(ring[1], Clean(f))
      IN [again EXCEPT !.head = FixedHead(@)] = [ring[1] EXCEPT !.head = FixedHead(@)]

(* The files do not repeat what import_one takes over as it finds it at    *)
(* the head and on subkeys: collapse_uids looks for duplicates among the   *)
(* user ids only.                                                          *)
OnceInFiles ==
  \A f \in File :
    /\ IsInjective(f.head)
    /\ IsInjective(Map(LAMBDA k : k.id, f.subs))
    /\ \A k \in ToSet(f.subs) : IsInjective(k.sigs)
    /\ \A g \in File : \A u \in ToSet(f.uids), k \in ToSet(g.subs) : u.id # k.id

(* The user ids that a file holds once, with a signature twice:            *)
(* collapse_uids leaves them so.                                           *)
Doubled(f) ==
  {f.uids[i].id : i \in {i \in DOMAIN f.uids :
                            Lone(f.uids, i) /\ ~IsInjective(f.uids[i].sigs)}}

(* Nothing is in the keyblock twice: no user id and no subkey, and no      *)
(* signature on one of them, also when a file had the user id twice.  Only *)
(* a user id that came with a signature twice, in a file that had it once, *)
(* may keep both.                                                          *)
NothingTwice ==
  \A n \in DOMAIN ring :
    LET b == ring[n] IN
    /\ IsInjective(b.head)
    /\ IsInjective(Map(LAMBDA p : p.id, b.uids \o b.subs))
    /\ \A k \in ToSet(b.subs) : IsInjective(k.sigs)
    /\ \A u \in ToSet(b.uids) :
         IsInjective(u.sigs) \/ u.id \in UNION {Doubled(f) : f \in told}

(* When certificates of others have come with an import, the web of trust  *)
(* is marked as out of date, or the import is about to do so.              *)
WebCurrent == unseen => marked \/ marking

=============================================================================
