------------------------------ MODULE WebOfTrust ------------------------------
(***************************************************************************)
(* The web of trust: validate_keys of g10/trustdb.c, which computes the    *)
(* validity of every user id from the certificates on it and the           *)
(* ownertrust of those who made them, and stores it in the trust database. *)
(*                                                                         *)
(* The check proceeds in rounds.  In each, the keys that became valid in   *)
(* the one before are given an ownertrust, all keys which they have signed *)
(* are evaluated, and the results are stored key by key; counts of         *)
(* certificates are carried from round to round in the stored records.     *)
(* Validity expires, so a check also stores when the next one is due.      *)
(*                                                                         *)
(* One process at a time uses the database here; it may die at any step of *)
(* a check, and others start with what is stored.  The writes below one    *)
(* do_sync are one step; what comes between them is the subject of Tdbio.  *)
(***************************************************************************)
EXTENDS Naturals, FiniteSets, Sequences, SequencesExt, TLC

CONSTANTS Key, Uid,
          UidsOf,      \* the user ids of a key, in the order of its keyblock
          Beginnings,  \* webs of certificates with an ownertrust and a moment
          Rateable,    \* the keys that a user assigns ownertrust to,
          Assignable,  \* and the values
          Completes,   \* opt.completes_needed
          Marginals,   \* opt.marginals_needed
          MaxDepth,    \* opt.max_cert_depth
          CountMod,    \* what a count is stored modulo: 256, its width a byte
          Pgp,         \* opt.trust_model is TM_PGP: trust signatures count
          Interactive, \* checks may ask for ownertrust (--update-trustdb)
          NoAutoCheck, \* the values opt.no_auto_check_trustdb may have
          Failing,     \* reading the keyrings may fail
          Horizon,     \* the last moment (bound)
          MaxSets,     \* the changes of ownertrust (bound)
          MaxForced    \* the checks that a user asks for (bound)

(* The values of trustdb.h, in ascending order.                            *)
Unknown == 0
Undefined == 2
Never == 3
Marginal == 4
Fully == 5
Ultimate == 6

ASSUME UidsAssumption ==
  /\ UidsOf \in [Key -> Seq(Uid)]
  /\ \A u \in Uid :
       Cardinality({k \in Key : \E i \in DOMAIN UidsOf[k] : UidsOf[k][i] = u}) = 1
ASSUME NeededAssumption ==
  Completes \in Nat \ {0} /\ Marginals \in Nat \ {0, 1} /\ MaxDepth \in 1 .. 255
ASSUME WidthAssumption == CountMod \in Nat /\ CountMod > Completes
ASSUME AssignableAssumption ==
  /\ Rateable \subseteq Key /\ Assignable \subseteq 2 .. Ultimate
  /\ NoAutoCheck \subseteq BOOLEAN /\ Interactive \in BOOLEAN /\ Horizon \in Nat

VARIABLES web, now,           \* the keyrings and the clock
          ot, minot,          \* ownertrust and min_ownertrust of the trust records
          valid, nextcheck,   \* the validity records, the version record
          pc,                 \* control of the process
          utk,                \* its utk_list
          pending, did,       \* pending_check_trustdb, did_nextcheck
          run,                \* the locals of validate_keys
          cut,                \* history: a check was not finished
          sets, forced        \* history: counters that MaxSets, MaxForced bound

db == <<ot, minot, valid, nextcheck>>
process == <<utk, pending, did>>
vars == <<web, now, db, pc, process, run, cut, sets, forced>>

-----------------------------------------------------------------------------
(* Certificates.  web.sigs[u] are those on a user id, in the order of the  *)
(* keyblock, that verify and are not made by the key itself:               *)
(*   [by, made, ends (0: never), revocable, rev (it is a revocation),      *)
(*    depth (0: no trust signature), value, scope]                         *)
(* where scope holds the user ids that the regular expression of a trust   *)
(* signature matches, Uid when it has none.  Moments start at 2; a key or  *)
(* a user id that is revoked is one that has ended at moment 1.            *)
Certificate ==
  [by : Key, made : Nat, ends : Nat, revocable : BOOLEAN, rev : BOOLEAN,
   depth : Nat, value : Nat, scope : SUBSET Uid]
ASSUME BeginningsAssumption ==
  \A b \in Beginnings :
    /\ b.web.sigs \in [Uid -> Seq(Certificate)]
    /\ b.web.keyends \in [Key -> Nat] /\ b.web.uidends \in [Uid -> Nat]
    /\ b.ot \in [Key -> {Unknown} \cup Undefined .. Ultimate]
    /\ b.now \in 2 .. Horizon

KeyOf(u) == CHOOSE k \in Key : \E i \in DOMAIN UidsOf[k] : UidsOf[k][i] = u
Uids(k) == {UidsOf[k][i] : i \in DOMAIN UidsOf[k]}
Expired(k, t) == web.keyends[k] # 0 /\ web.keyends[k] < t
Live(u, t) == web.uidends[u] = 0 \/ web.uidends[u] > t
Unexpired(s, t) == s.ends = 0 \/ s.ends > t
Lasting(s, t) == ~s.rev /\ ~s.revocable /\ Unexpired(s, t)

(* mark_usable_uid_certs: of the certificates of one signer the one that   *)
(* counts, by comparing them in order.                                     *)
Supersedes(new, old, t) ==
  IF Lasting(new, t) = Lasting(old, t) THEN new.made >= old.made
  ELSE Lasting(new, t)
Chosen(sigs, by, t) ==
  LET later(i, j) ==
        IF sigs[j].by = by /\ (i = 0 \/ Supersedes(sigs[j], sigs[i], t)) THEN j ELSE i
  IN  FoldLeftDomain(later, 0, sigs)
Usable(u, signers, t) ==
  LET sigs == web.sigs[u]
  IN  {i \in DOMAIN sigs : /\ sigs[i].by \in signers
                           /\ ~sigs[i].rev /\ Unexpired(sigs[i], t)
                           /\ i = Chosen(sigs, sigs[i].by, t)}

Soonest(S) ==
  LET ends == S \ {0}
  IN  IF ends = {} THEN 0 ELSE CHOOSE x \in ends : \A y \in ends : x <= y

-----------------------------------------------------------------------------
(* validate_one_keyblock.  klist maps the keys of this round to their      *)
(* struct key_item.                                                        *)
Weighed(klist, u, t) ==
  {i \in Usable(u, DOMAIN klist, t) : ~Pgp \/ u \in klist[web.sigs[u][i].by].scope}

Count(c, trust) ==
  CASE trust = Ultimate -> [c EXCEPT !.full = Completes]
    [] trust = Fully    -> [c EXCEPT !.full = @ + 1]
    [] trust = Marginal -> [c EXCEPT !.marginal = @ + 1]
    [] OTHER -> c
Counts(klist, u, t) ==
  LET use == Weighed(klist, u, t)
      add(c, i) == IF i \in use THEN Count(c, klist[web.sigs[u][i].by].ot) ELSE c
  IN  FoldLeftDomain(add, [full |-> valid[u].full, marginal |-> valid[u].marginal],
                     web.sigs[u])
Status(c) ==
  IF c.full >= Completes \/ c.marginal >= Marginals THEN Fully
  ELSE IF c.full > 0 \/ c.marginal > 0 THEN Marginal ELSE Undefined

(* A trust signature hands on trust, but not deeper than its maker may.    *)
Item(trust, min, pk) ==
  [ot |-> trust, min |-> min, depth |-> pk.depth, value |-> pk.value, scope |-> pk.scope]
NoTrust == [depth |-> 0, value |-> 0, scope |-> Uid]
GrantedDepth_OneMore(s, item) ==
  IF s.depth < item.depth \/ item.ot = Ultimate THEN s.depth + 1 ELSE item.depth + 1
GrantedDepth(s, item) ==
  IF s.depth < item.depth \/ item.ot = Ultimate THEN s.depth ELSE item.depth
Granted(pk, s, item) ==
  IF ~Pgp \/ s.depth = 0 \/ GrantedDepth(s, item) = 0 THEN pk
  ELSE [depth |-> GrantedDepth(s, item) - 1, value |-> s.value,
        scope |-> IF s.scope = Uid THEN pk.scope ELSE s.scope]

GrantedOn(pk, klist, u, t) ==
  LET use == Weighed(klist, u, t)
      grant(p, i) == IF i \in use
                       THEN Granted(p, web.sigs[u][i], klist[web.sigs[u][i].by]) ELSE p
  IN  FoldLeftDomain(grant, pk, web.sigs[u])

SignedUids(klist, k, t) ==
  {u \in Uids(k) : Live(u, now) /\ Weighed(klist, u, t) # {}}
Evaluated(klist, k, t) ==
  LET grant(pk, u) == IF Live(u, now) THEN GrantedOn(pk, klist, u, t) ELSE pk
  IN  [counts |-> [u \in SignedUids(klist, k, t) |-> Counts(klist, u, t)],
       pk |-> FoldLeft(grant, NoTrust, UidsOf[k])]

(* Moments at which an evaluation of key k may change.                     *)
EndsOf_NoSigs(klist, k, t) ==
  {web.uidends[u] : u \in {v \in Uids(k) : Live(v, now)}}
EndsOf(klist, k, t) ==
  {web.uidends[u] : u \in {v \in Uids(k) : Live(v, now)}}
    \cup (UNION {{web.sigs[u][i].ends : i \in Usable(u, DOMAIN klist, t)}
                 : u \in {v \in Uids(k) : Live(v, now)}})
    \cup (IF web.keyends[k] >= t /\ SignedUids(klist, k, t) # {}
            THEN {web.keyends[k]} ELSE {})

-----------------------------------------------------------------------------
NoRun == [start |-> 0, depth |-> 0, klist |-> <<>>, used |-> {}, seen |-> {},
          found |-> <<>>, left |-> {}, expire |-> 0, ask |-> FALSE]
NoRecord == [value |-> 0, full |-> 0, marginal |-> 0]
Checking == pc \in {"assign", "scan", "store", "finish"}
Due == nextcheck # 0 /\ nextcheck <= now

Init ==
  /\ \E b \in Beginnings : web = b.web /\ ot = b.ot /\ now = b.now
  /\ minot = [k \in Key |-> Unknown]
  /\ valid = [u \in Uid |-> NoRecord] /\ nextcheck = 1
  /\ pc = "off" /\ utk = {} /\ pending = FALSE /\ did = FALSE
  /\ run = NoRun /\ cut = FALSE /\ sets = 0 /\ forced = 0

Tick ==
  /\ now < Horizon
  /\ now' = now + 1
  /\ UNCHANGED <<web, db, pc, process, run, cut, sets, forced>>

(* init_trustdb and verify_own_keys, once in the life of a process; no key *)
(* is given by --trusted-key, and the options are those of the database.   *)
Start ==
  /\ pc = "off"
  /\ pc' = "idle"
  /\ utk' = {k \in Key : ot[k] = Ultimate}
  /\ UNCHANGED <<web, now, db, pending, did, run, cut, sets, forced>>

(* The end of the process, by an exit or in the middle of a check.         *)
End ==
  /\ pc # "off"
  /\ pc' = "off"
  /\ utk' = {} /\ pending' = FALSE /\ did' = FALSE
  /\ run' = NoRun
  /\ cut' = (cut \/ Checking)
  /\ UNCHANGED <<web, now, db, sets, forced>>

(* update_ownertrust with revalidation_mark.                               *)
SetOwnertrust(k, value) ==
  /\ pc = "idle" /\ sets < MaxSets /\ ot[k] # value
  /\ ot' = [ot EXCEPT ![k] = value]
  /\ nextcheck' = 1 /\ pending' = TRUE
  /\ sets' = sets + 1
  /\ UNCHANGED <<web, now, minot, valid, pc, utk, did, run, cut, forced>>

-----------------------------------------------------------------------------
(* validate_keys up to its loop: reset_trust_records, then the keys of     *)
(* utk_list.  Without any the check is over.                               *)
Cleared_KeepsCounts == [u \in Uid |-> [valid[u] EXCEPT !.value = 0]]
Cleared == [u \in Uid |-> NoRecord]
Begin(ask) ==
  /\ pc' = IF utk = {} THEN "finish" ELSE "assign"
  /\ valid' = [u \in Uid |-> IF KeyOf(u) \in utk
                               THEN [NoRecord EXCEPT !.value = Ultimate]
                               ELSE Cleared[u]]
  /\ minot' = [k \in Key |-> Unknown]
  /\ run' = [NoRun EXCEPT
               !.start = now, !.used = utk, !.seen = utk, !.ask = ask,
               !.klist = [k \in utk |-> Item(Ultimate, Unknown, NoTrust)],
               !.expire = Soonest({web.keyends[k] : k \in {j \in utk : ~Expired(j, now)}})]
  /\ UNCHANGED <<web, now, ot, nextcheck, utk, pending, cut, sets>>

(* check_trustdb_stale: at most once in the life of a process.             *)
Stale ==
  /\ pc = "idle" /\ ~did
  /\ did' = TRUE
  /\ \E noauto \in NoAutoCheck :
       IF (Due \/ pending) /\ ~noauto
         THEN Begin(FALSE)
         ELSE /\ pending' = (pending \/ Due)
              /\ UNCHANGED <<web, now, db, pc, utk, run, cut, sets>>
  /\ UNCHANGED forced

(* trustdb_check_or_update, after an import.                               *)
CheckOrUpdate ==
  /\ pc = "idle" /\ pending
  /\ Interactive \/ FALSE \in NoAutoCheck
  /\ Begin(Interactive)
  /\ UNCHANGED <<did, forced>>

(* --check-trustdb and --update-trustdb; in batch mode one that is not due *)
(* does nothing.                                                           *)
Forced ==
  /\ pc = "idle" /\ forced < MaxForced
  /\ forced' = forced + 1
  /\ \E ask \in {FALSE, Interactive} : Begin(ask)
  /\ UNCHANGED did

(* The loop over klist.  A key of min is raised to it; those without an    *)
(* ownertrust are asked for, 0 being the answer of one who does not know.  *)
MinOf(item) ==
  CASE item.value >= 120 -> Fully
    [] item.value \in 60 .. 119 -> Marginal
    [] OTHER -> Unknown
Asked == {k \in DOMAIN run.klist : run.ask /\ run.klist[k].ot = Unknown}
MaxOf(a, b) == IF a > b THEN a ELSE b

Assigning(K, answer) ==
  /\ ot' = [k \in Key |-> IF k \in DOMAIN answer /\ answer[k] # 0
                           THEN answer[k] ELSE ot[k]]
  /\ minot' = [k \in Key |-> IF k \in K THEN MinOf(run.klist[k]) ELSE minot[k]]
  /\ LET marks == ot' # ot \/ \E k \in K : MinOf(run.klist[k]) # run.klist[k].min
     IN  /\ nextcheck' = IF marks THEN 1 ELSE nextcheck
         /\ pending' = (pending \/ marks)

Trusted(k, answer) ==
  LET item == run.klist[k]
      mine == IF k \notin Asked THEN item.ot
              ELSE IF answer[k] # 0 THEN answer[k]
              ELSE MaxOf(Undefined, MinOf(item))
  IN  [item EXCEPT !.ot = MaxOf(mine, MinOf(item))]

Assign ==
  /\ pc = "assign"
  /\ \E answer \in [Asked -> {0} \cup Assignable] :
       /\ Assigning(DOMAIN run.klist, answer)
       /\ run' = [run EXCEPT !.klist = [k \in DOMAIN @ |-> Trusted(k, answer)]]
  /\ pc' = "scan"
  /\ UNCHANGED <<web, now, valid, utk, did, cut, sets, forced>>

(* The user quits at the question about q; what comes before it in klist   *)
(* is done.                                                                *)
Quit ==
  /\ pc = "assign"
  /\ \E q \in Asked : \E K \in SUBSET (DOMAIN run.klist \ {q}) :
       \E answer \in [K \cap Asked -> {0} \cup Assignable] :
         Assigning(K \cup {q}, answer)
  /\ pc' = "idle" /\ run' = NoRun /\ cut' = TRUE
  /\ UNCHANGED <<web, now, valid, utk, did, sets, forced>>

(* validate_key_list: all keys of the keyrings that are not yet settled.   *)
Scan ==
  /\ pc = "scan"
  /\ \E open \in {{k \in Key \ run.seen : ~Expired(k, now)}} :
     \E found \in {[k \in {j \in open : SignedUids(run.klist, j, run.start) # {}}
                      |-> Evaluated(run.klist, k, run.start)]} :
       run' = [run EXCEPT
         !.found = found,
         !.left = DOMAIN found,
         !.seen = @ \cup {k \in Key : Expired(k, now)}
                    \cup {k \in DOMAIN found : \A u \in Uids(k) :
                            /\ u \in DOMAIN found[k].counts
                            /\ Status(found[k].counts[u]) = Fully},
         !.expire = Soonest({@} \cup UNION {EndsOf(run.klist, k, run.start) : k \in open})]
  /\ pc' = "store"
  /\ UNCHANGED <<web, now, db, process, cut, sets, forced>>

(* "validate_key_list failed".                                             *)
ScanFails ==
  /\ pc = "scan" /\ Failing
  /\ pc' = "idle" /\ run' = NoRun /\ cut' = TRUE
  /\ UNCHANGED <<web, now, db, process, sets, forced>>

(* store_validation_status.                                                *)
StoredCounts_Dropped(c) == [value |-> Status(c), full |-> 0, marginal |-> 0]
StoredCounts(c) ==
  [value |-> Status(c), full |-> c.full % CountMod, marginal |-> c.marginal % CountMod]
Store ==
  /\ pc = "store"
  /\ \E k \in run.left :
       /\ valid' = [u \in Uid |-> IF u \in DOMAIN run.found[k].counts
                                    THEN StoredCounts(run.found[k].counts[u])
                                    ELSE valid[u]]
       /\ run' = [run EXCEPT !.left = @ \ {k}]
  /\ UNCHANGED <<web, now, ot, minot, nextcheck, pc, process, cut, sets, forced>>

(* The next klist: the keys that are fully valid, each but once.           *)
Joining ==
  {k \in DOMAIN run.found \ run.used :
     \E u \in DOMAIN run.found[k].counts : Status(run.found[k].counts[u]) = Fully}
LastRound(depth) == depth + 1 = MaxDepth
Extend ==
  /\ pc = "store" /\ run.left = {}
  /\ run' = [run EXCEPT
       !.klist = [k \in Joining |-> Item(ot[k], minot[k], run.found[k].pk)],
       !.used = @ \cup Joining, !.found = <<>>,
       !.depth = IF LastRound(@) \/ Joining = {} THEN @ ELSE @ + 1]
  /\ pc' = IF LastRound(run.depth) \/ Joining = {} THEN "finish" ELSE "assign"
  /\ UNCHANGED <<web, now, db, process, cut, sets, forced>>

(* "mark trustDB as checked".                                              *)
Finish ==
  /\ pc = "finish"
  /\ nextcheck' = IF run.expire < run.start THEN 0 ELSE run.expire
  /\ pending' = FALSE /\ cut' = FALSE
  /\ pc' = "idle" /\ run' = NoRun
  /\ UNCHANGED <<web, now, ot, minot, valid, utk, did, sets, forced>>

Next ==
  \/ Tick \/ Start \/ End
  \/ \E k \in Rateable, value \in Assignable : SetOwnertrust(k, value)
  \/ Stale \/ CheckOrUpdate \/ Forced
  \/ Assign \/ Quit \/ Scan \/ ScanFails \/ Store \/ Extend \/ Finish

Spec == Init /\ [][Next]_vars

-----------------------------------------------------------------------------
(* Validity as the options of gpg describe it, at moment t: a signer's     *)
(* best certificate, the introducers that are reached within MaxDepth      *)
(* links, and how many of them are needed.                                 *)
Beats(sigs, i, j, t) ==
  \/ Lasting(sigs[i], t) /\ ~Lasting(sigs[j], t)
  \/ /\ Lasting(sigs[i], t) = Lasting(sigs[j], t)
     /\ sigs[i].made > sigs[j].made \/ (sigs[i].made = sigs[j].made /\ i >= j)
Certifiers(u, t) ==
  LET sigs == web.sigs[u]
      best(i) == \A j \in DOMAIN sigs : sigs[j].by = sigs[i].by => Beats(sigs, i, j, t)
      good(i) == best(i) /\ ~sigs[i].rev /\ Unexpired(sigs[i], t)
  IN  {sigs[i].by : i \in {j \in DOMAIN sigs : good(j)}}

Rated(K, value) == {k \in K : ot[k] = value}
Enough(K) ==
  \/ Rated(K, Ultimate) # {}
  \/ Cardinality(Rated(K, Fully)) >= Completes
  \/ Cardinality(Rated(K, Marginal)) >= Marginals
Introducers(t) ==
  LET valid_by(k, K) ==
        \E u \in Uids(k) : Live(u, t) /\ Enough(Certifiers(u, t) \cap K)
      within[d \in 0 .. MaxDepth - 1] ==
        IF d = 0 THEN Rated(Key, Ultimate)
        ELSE within[d - 1]
               \cup {k \in Key : ~Expired(k, t) /\ valid_by(k, within[d - 1])}
  IN  within[MaxDepth - 1]
Validity(t, introducers, u) ==
  LET K == Certifiers(u, t) \cap introducers
  IN  IF ot[KeyOf(u)] = Ultimate THEN Ultimate
      ELSE IF Expired(KeyOf(u), t) \/ ~Live(u, t) \/ K = {} THEN Unknown
      ELSE IF Enough(K) THEN Fully
      ELSE IF Rated(K, Fully) \cup Rated(K, Marginal) # {} THEN Marginal ELSE Undefined
Valid(t) == LET K == Introducers(t) IN [u \in Uid |-> Validity(t, K, u)]

(* Trust signatures add introducers that Valid does not know of.           *)
Plain == ~Pgp \/ \A u \in Uid : \A i \in DOMAIN web.sigs[u] : web.sigs[u][i].depth = 0

-----------------------------------------------------------------------------
TypeOK ==
  /\ pc \in {"off", "idle", "assign", "scan", "store", "finish"}
  /\ \A k \in Key : ot[k] \in 0 .. Ultimate /\ minot[k] \in {Unknown, Marginal, Fully}
  /\ \A u \in Uid : /\ valid[u].value \in {0} \cup (2 .. Ultimate)
                    /\ valid[u].full < CountMod /\ valid[u].marginal < CountMod
  /\ run.depth < MaxDepth
  /\ DOMAIN run.klist \subseteq run.used /\ run.left \subseteq DOMAIN run.found
  /\ nextcheck \in Nat /\ now \in 2 .. Horizon

(* As long as no check is due, the stored validity is what the web of      *)
(* trust says now, however it has been computed: incrementally, in rounds, *)
(* skipping keys that are settled, and at an earlier time.  A check that   *)
(* was cut off has to be repeated first.                                   *)
Exact ==
  ~Checking /\ ~Due /\ ~cut /\ Plain =>
    \E v \in {Valid(now)} : \A u \in Uid : valid[u].value = v[u]

(* Nothing is ever shown as more valid than it is while no check is due:   *)
(* not in the middle of a check, nor after one that was cut off.           *)
NeverMore ==
  ~Due /\ Plain =>
    \E v \in {Valid(now)} : \A u \in Uid : valid[u].value <= v[u]

(* Within a check no user id loses validity: counts only grow.             *)
Growing ==
  [][ Checking /\ Checking' => \A u \in Uid : valid'[u].value >= valid[u].value ]_vars

(* A key gets a min_ownertrust only at the end of a chain of trust         *)
(* signatures that begins at an ultimately trusted key, each of which      *)
(* allows for all the links that follow it.                                *)
Delegates(j, k, depth) ==
  \E u \in Uids(k) : \E i \in DOMAIN web.sigs[u] :
    web.sigs[u][i].by = j /\ web.sigs[u][i].depth >= depth
Delegated ==
  \A k \in Key : minot[k] # Unknown =>
    \E n \in 1 .. MaxDepth : \E path \in [0 .. n -> Key] :
      /\ ot[path[0]] = Ultimate /\ path[n] = k
      /\ \A i \in 1 .. n : Delegates(path[i - 1], path[i], n - i + 1)

=============================================================================
