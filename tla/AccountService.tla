---------------------------- MODULE AccountService ----------------------------
(***************************************************************************)
(* user-service: what a login, the deletion of the account and a change of *)
(* the profile do to the tables, statement by statement.                   *)
(***************************************************************************)
EXTENDS Backends

(* Login and RefreshToken: the lookup, which ends in a refusal, too, when  *)
(* the password or the token is wrong, ...                                 *)

WrongSecret(r) == call[r].flaw = "secret"

(* Mutant: the lookup does not mind deleted_at. *)
FindLoginUnscoped(r) ==
  /\ At(r, "lookup")
  /\ IF WrongSecret(r) THEN Return(r, "denied") ELSE Goto(r, "issue")
  /\ NoEffect /\ UNCHANGED data

FindLogin(r) ==
  /\ At(r, "lookup")
  /\ \/ User(r) \in alive /\ ~ WrongSecret(r) /\ Goto(r, "issue")
     \/ (User(r) \notin alive \/ WrongSecret(r)) /\ Return(r, "denied")
     \/ Op(r) = "refresh" /\ User(r) \notin alive /\ Return(r, "missing")
  /\ NoEffect /\ UNCHANGED data

(* ... and the session that goes with the tokens.                          *)
Issue(r) == At(r, "issue") /\ Return(r, "ok") /\ Effect(r) /\ UNCHANGED data

(* DeleteUser: FindByID, the soft deletion, RevokeAllByUserID.             *)
FindMe(r) ==
  /\ At(r, "find")
  /\ IF User(r) \in alive THEN Goto(r, "drop") ELSE Return(r, "missing")
  /\ NoEffect /\ UNCHANGED data

Drop(r) ==
  /\ At(r, "drop")
  /\ \/ /\ User(r) \in alive /\ Commit(rows, gone, alive \ {User(r)})
        /\ Effect(r) /\ Goto(r, "revoke")
     \/ User(r) \notin alive /\ Return(r, "missing") /\ NoEffect /\ UNCHANGED Content
  /\ UNCHANGED <<profile, Files, Reading>>

Revoke(r) == At(r, "revoke") /\ Return(r, "ok") /\ NoEffect /\ UNCHANGED data

(* UpdateProfile: FindByID and the checks of the fields, ...               *)
FindProfile(r) ==
  /\ At(r, "profile")
  /\ \/ User(r) \notin alive /\ Return(r, "missing")
     \/ User(r) \in alive /\ call[r].flaw = "content" /\ Return(r, "invalid")
     \/ User(r) \in alive /\ call[r].flaw # "content" /\ Goto(r, "write")
  /\ NoEffect /\ UNCHANGED data

(* nullableProfileField: what is blank clears its column.                  *)
Column(r) == IF call[r].flaw = "blank" THEN None ELSE r

(* Mutant: the whole row is saved, without what the request does not give. *)
SaveProfile(r) ==
  /\ At(r, "write") /\ Goto(r, "reread")
  /\ IF User(r) \in alive
       THEN /\ Effect(r)
            /\ profile' = [profile EXCEPT ![User(r)] =
                 [f \in Fields |-> IF f \in call[r].with THEN Column(r) ELSE None]]
       ELSE NoEffect /\ UNCHANGED profile
  /\ UNCHANGED <<Content, Files, Reading>>

(* ... Updates of the given columns only, if there are any, ...            *)
WriteProfile(r) ==
  /\ At(r, "write") /\ Goto(r, "reread")
  /\ IF User(r) \in alive /\ call[r].with # {}
       THEN /\ Effect(r)
            /\ profile' = [profile EXCEPT ![User(r)] =
                 [f \in Fields |-> IF f \in call[r].with THEN Column(r) ELSE @[f]]]
       ELSE NoEffect /\ UNCHANGED profile
  /\ UNCHANGED <<Content, Files, Reading>>

(* ... and FindByID for the answer.                                        *)
RereadProfile(r) ==
  /\ At(r, "reread")
  /\ Return(r, IF User(r) \in alive THEN "ok" ELSE "missing")
  /\ NoEffect /\ UNCHANGED data
=============================================================================
