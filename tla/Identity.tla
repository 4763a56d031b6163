------------------------------ MODULE Identity ------------------------------
(***************************************************************************)
(* The user and group ids of a task: setreuid(), setuid(), setregid() and  *)
(* setgid() of kernel/sys.c, and what execve() does to them. Each call is  *)
(* one step, since none sleeps between its tests and its assignments.      *)
(*                                                                         *)
(* It is one task, and with it its children, who have its ids: no call     *)
(* reads the ids of another. Left out are what the ids are asked for       *)
(* (permission(), kill()), and all of execve() but the ids.                *)
(***************************************************************************)
EXTENDS Integers

CONSTANTS
    MaxId,     \* bound: the greatest id; 0 is root
    SetUids,   \* the owners of the programs that are to run as their owner
    SetGids    \* the groups of those that are to run in their group

ASSUME IdentityAssumption == MaxId \in Nat /\ SetUids \subseteq 0 .. MaxId /\ SetGids \subseteq 0 .. MaxId

Ids  == 0 .. MaxId
Args == -1 .. MaxId

VARIABLES
    cred,  \* the ids of the task
    ret    \* what the last call has returned

identityVars == <<cred, ret>>

OK    == 0
EPERM == 1

Creds == [uid : Ids, euid : Ids, suid : Ids, gid : Ids, egid : Ids, sgid : Ids]

\* The tasks that init/main.c starts are root's.
IdentityInit ==
    /\ cred = [uid |-> 0, euid |-> 0, suid |-> 0, gid |-> 0, egid |-> 0, sgid |-> 0]
    /\ ret = OK

suser == cred.euid = 0

Return(c, e) == cred' = c /\ ret' = e

\* Mutated form: the user id stays changed although the call fails.
setreuidHalf(ruid, euid) ==
    LET old == cred.uid
        real == [cred EXCEPT !.uid = IF ruid > 0 THEN ruid ELSE @]
    IN IF ruid > 0 /\ ruid \notin {cred.euid, old} /\ ~suser THEN Return(cred, EPERM)
       ELSE IF euid > 0 /\ euid \notin {old, cred.euid} /\ ~suser THEN Return(real, EPERM)
       ELSE Return([real EXCEPT !.euid = IF euid > 0 THEN euid ELSE @, !.suid = IF euid > 0 THEN euid ELSE @], OK)

\* setreuid(): an id that is not positive is not to be set. If the second id may not be set, the
\* first is put back.
setreuid(ruid, euid) ==
    LET old == cred.uid
        real == [cred EXCEPT !.uid = IF ruid > 0 THEN ruid ELSE @]
    IN IF ruid > 0 /\ ruid \notin {cred.euid, old} /\ ~suser THEN Return(cred, EPERM)
       ELSE IF euid > 0 /\ euid \notin {old, cred.euid} /\ ~suser THEN Return([real EXCEPT !.uid = old], EPERM)
       ELSE Return([real EXCEPT !.euid = IF euid > 0 THEN euid ELSE @, !.suid = IF euid > 0 THEN euid ELSE @], OK)

\* setregid(): the first id is not put back.
setregid(rgid, egid) ==
    LET real == [cred EXCEPT !.gid = IF rgid > 0 THEN rgid ELSE @]
    IN IF rgid > 0 /\ rgid # cred.gid /\ ~suser THEN Return(cred, EPERM)
       ELSE IF egid > 0 /\ egid \notin {real.gid, real.egid} /\ ~suser THEN Return(real, EPERM)
       ELSE Return([real EXCEPT !.egid = IF egid > 0 THEN egid ELSE @, !.sgid = IF egid > 0 THEN egid ELSE @], OK)

\* setuid(): root sets all three ids, the others the effective one.
setuid(uid) ==
    IF suser THEN Return([cred EXCEPT !.uid = uid, !.euid = uid, !.suid = uid], OK)
    ELSE IF uid \in {cred.uid, cred.suid} THEN Return([cred EXCEPT !.euid = uid], OK)
    ELSE Return(cred, EPERM)

setgid(gid) ==
    IF suser THEN Return([cred EXCEPT !.gid = gid, !.egid = gid, !.sgid = gid], OK)
    ELSE IF gid \in {cred.gid, cred.sgid} THEN Return([cred EXCEPT !.egid = gid], OK)
    ELSE Return(cred, EPERM)

\* execve() of a program that runs as user e_uid and in group e_gid: the task's, or the program's.
execve(e_uid, e_gid) ==
    /\ e_uid \in SetUids \cup {cred.euid}
    /\ e_gid \in SetGids \cup {cred.egid}
    /\ Return([cred EXCEPT !.euid = e_uid, !.egid = e_gid], OK)

IdentityNext ==
    \/ \E r, e \in Args : setreuid(r, e) \/ setregid(r, e)
    \/ \E i \in Ids : setuid(i) \/ setgid(i)
    \/ \E u, g \in Ids : execve(u, g)

IdentitySpec == IdentityInit /\ [][IdentityNext]_identityVars

-----------------------------------------------------------------------------
(* What should hold. *)

IdentityTypes == cred \in Creds /\ ret \in {OK, EPERM}

Uids(c) == {c.uid, c.euid, c.suid}
Gids(c) == {c.gid, c.egid, c.sgid}

\* Whoever is not root gets no id that he has not, but from a program: ids given up are given up.
\* And a call that fails has changed nothing, although setregid() does not put its first id back.
IdsKept ==
    [][/\ ~suser => /\ Uids(cred') \subseteq Uids(cred) \cup SetUids
                    /\ Gids(cred') \subseteq Gids(cred) \cup SetGids
       /\ ret' = EPERM => cred' = cred]_identityVars
=============================================================================
