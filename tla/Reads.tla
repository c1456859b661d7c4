-------------------------------- MODULE Reads --------------------------------
(***************************************************************************)
(* The queries behind the home feed, the timeline of a user and the        *)
(* replies to a post.  A row is read as an entry, <<item, created_at>>;    *)
(* ORDER BY created_at leaves the order of equal stamps to PostgreSQL.     *)
(***************************************************************************)
EXTENDS Integers, FiniteSets, FiniteSetsExt

Stamp(e) == e[2]

(* ORDER BY created_at DESC (ASC) LIMIT n: any set the order allows.       *)
Newest(S, n) ==
  IF Cardinality(S) <= n THEN {S}
  ELSE {T \in kSubset(n, S) : \A e \in T, f \in S \ T : Stamp(e) >= Stamp(f)}
Oldest(S, n) ==
  IF Cardinality(S) <= n THEN {S}
  ELSE {T \in kSubset(n, S) : \A e \in T, f \in S \ T : Stamp(e) <= Stamp(f)}

NormalizeLimit(limit) == IF limit \in 1..50 THEN limit ELSE 20

(* Mutant: the last post of a page is on the next one, too. *)
AfterOrAt(S, cursor) == IF cursor = 0 THEN S ELSE {e \in S : Stamp(e) <= cursor}

After(S, cursor) == IF cursor = 0 THEN S ELSE {e \in S : Stamp(e) < cursor}

(* A page of the home feed and its next cursor (0 is none): one row more   *)
(* than asked for tells that there are further ones, and the cursor is the *)
(* stamp of the last row returned.                                         *)
Pages(S, limit, cursor) ==
  {[shown |-> T, next |-> IF Cardinality(After(S, cursor)) > limit
                            THEN Min({Stamp(e) : e \in T}) ELSE 0] :
     T \in Newest(After(S, cursor), limit)}

(* Mutant: own posts first, then reposts, and no sorting before the cut. *)
AppendRepostsAfterPosts(own, reposts, limit) ==
  IF Cardinality(own) >= limit THEN {own}
  ELSE {own \cup T : T \in Newest(reposts, limit - Cardinality(own))}

(* The timeline: what the two queries returned, sorted and cut again.      *)
Merged(own, reposts, limit) == Newest(own \cup reposts, limit)
=============================================================================
