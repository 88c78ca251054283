----------------------------- MODULE MCKeyMerge -----------------------------
(* An instance of KeyMerge for TLC: a key with two user ids and a subkey.  *)
EXTENDS KeyMerge

Sig(class, by, on, time) ==
  [class |-> class, by |-> by, on |-> on, time |-> time, expires |-> 0,
   primary |-> FALSE, keyexp |-> 0, revoker |-> FALSE, good |-> TRUE]
Own(class, on, time) == Sig(class, "self", on, time)
Broken(s) == [s EXCEPT !.good = FALSE]
Uid(id, sigs) == [id |-> id, sigs |-> sigs]
Block(head, uids, subs) == [head |-> head, uids |-> uids, subs |-> subs]

(* Two user ids, and a third the name of a subkey.                         *)
u1 == 1
u2 == 2
k3 == 3

One1 == [Own("uidsig", u1, 1) EXCEPT !.primary = TRUE]
Brief1 == [Own("uidsig", u1, 2) EXCEPT !.expires = 4, !.primary = TRUE]
Ends1 == [Own("uidsig", u1, 3) EXCEPT !.keyexp = 5]
One2 == [Own("uidsig", u2, 1) EXCEPT !.primary = TRUE, !.keyexp = 9]
Gone2 == Own("uidrev", u2, 2)
Back2 == Own("uidsig", u2, 3)
Friend1 == Sig("uidsig", "friend", u1, 2)
Friend2 == Sig("uidsig", "friend", u2, 2)
Bind1 == [Own("bind", k3, 1) EXCEPT !.keyexp = 3]
Bind2 == Own("bind", k3, 2)
Bind3 == [Own("bind", k3, 3) EXCEPT !.keyexp = 5]
Drop3 == Own("subrev", k3, 1)
Names == [Own("direct", Key, 1) EXCEPT !.revoker = TRUE, !.keyexp = 4, !.expires = 3]
Renames == Own("direct", Key, 2)
ByRevoker == Sig("keyrev", "revoker", Key, 2)
Dead == Own("keyrev", Key, 3)
Odd == Sig("direct", "friend", Key, 2)

Files == {
  \* as the key was made
  Block(<<Names>>, <<Uid(u1, <<One1>>), Uid(u2, <<One2>>)>>, <<Uid(k3, <<Bind1>>)>>),
  \* the second user id comes first, with a certificate; the subkey lasts longer
  Block(<<>>, <<Uid(u2, <<One2, Friend2>>), Uid(u1, <<Friend1, One1>>)>>,
        <<Uid(k3, <<Bind1, Bind2>>)>>),
  \* a user id twice, the other revoked; an expiring direct signature replaced
  Block(<<Odd, Renames>>,
        <<Uid(u1, <<One1, Brief1>>), Uid(u2, <<Gone2>>), Uid(u1, <<Friend1, One1>>)>>, <<>>),
  \* later statements, and the subkey revoked
  Block(<<>>, <<Uid(u1, <<Ends1>>), Uid(u2, <<Back2, Broken(One2)>>)>>,
        <<Uid(k3, <<Bind1, Drop3>>)>>),
  \* a revocation that the revoker made, and a later binding
  Block(<<ByRevoker>>, <<Uid(u1, <<One1>>)>>, <<Uid(k3, <<Bind3>>)>>),
  \* nothing that counts: only broken signatures, a subkey that is not bound
  Block(<<Dead, Broken(Names)>>, <<Uid(u1, <<Broken(Ends1)>>), Uid(u2, <<Friend2>>)>>,
        <<Uid(k3, <<Drop3>>)>>),
  \* one user id stays, with a signature twice, the subkey does not; a revocation
  \* that does not verify
  Block(<<Broken(Dead)>>, <<Uid(u2, <<One2, One2>>), Uid(u1, <<Friend1>>)>>,
        <<Uid(k3, <<Drop3, Broken(Bind2)>>)>>) }
Certs == {Dead, Broken(Dead)}

ASSUME FilesAreOnce == OnceInFiles
=============================================================================
