------------------------------ MODULE MCGateway ------------------------------
(* Instances of Gateway for TLC: each member of MCOffered is a set of      *)
(* requests that meet, with a few rows to meet about.                      *)
EXTENDS Gateway, TLC

CONSTANTS ann, bob, cy, r1, r2, r3, r4, p1, p2, p3, p4, bio, avatar

(* ann and cy follow bob; ann has reposted two posts of his, one deleted.  *)
MCAuthor == (p1 :> ann) @@ (p2 :> bob) @@ (p3 :> bob) @@ (p4 :> bob)
MCParent == [p \in {p1, p2, p3} |-> None] @@ (p4 :> p1)
MCGone == {p3}
MCRows == (p1 :> 1) @@ (p2 :> 2) @@ (p3 :> 3) @@ (p4 :> 2)
  @@ (<<"follow", ann, bob>> :> 1) @@ (<<"follow", cy, bob>> :> 2)
  @@ (<<"repost", ann, p2>> :> 2) @@ (<<"repost", ann, p3>> :> 3)

Do(op, u, on, with) ==
  [op |-> op, user |-> u, on |-> on, with |-> with, flaw |-> None, after |-> {}]
By(op, u) == Do(op, u, {}, {})
AfterAnswers(rs, c) == [c EXCEPT !.after = rs]
AfterAnswer(r, c) == AfterAnswers({r}, c)
Meet(S1, S2, S3, S4) ==
  {(r1 :> a) @@ (r2 :> b) @@ (r3 :> c) @@ (r4 :> d) : a \in S1, b \in S2, c \in S3, d \in S4}
NoOne == {Idle}

HomeFeed == By("homeFeed", ann)
NextPage(rs) == AfterAnswers(rs, HomeFeed)
Scrolls ==
  Meet({HomeFeed}, {NextPage({r1})}, {NextPage({r1, r2})}, NoOne)
  \cup Meet({HomeFeed}, {NextPage({r1})},
            {By("createPost", bob), Do("unfollow", ann, {bob}, {}), Do("deletePost", bob, {p2}, {})},
            NoOne)
Timelines ==
  Meet({By("getMe", ann)},
       {By("createPost", ann), Do("repost", ann, {p4}, {}), Do("unrepost", ann, {p2}, {})},
       {Do("deletePost", bob, {p2}, {})}, NoOne)
  \cup Meet({By("getMe", ann)}, {Do("deletePost", ann, {p1}, {})}, {By("deleteMe", ann)}, NoOne)
Threads ==
  Meet({Do("getReplies", ann, {p1}, {})},
       {Do("createReply", bob, {p1}, {}), Do("deletePost", bob, {p4}, {})},
       {Do("createReply", ann, {p1}, {}), Do("deletePost", bob, {p4}, {}),
        Do("deletePost", ann, {p1}, {})}, NoOne)
Uploads ==
  Meet({By("upload", ann)}, {AfterAnswer(r1, By("upload", ann))},
       {AfterAnswer(r1, Do("createPost", ann, {}, {r1, r2}))},
       {AfterAnswer(r3, Do("deletePost", ann, {r3}, {}))})
Goodbyes ==
  Meet({By("login", cy), By("refresh", cy)}, {By("deleteMe", cy)},
       {By("deleteMe", cy), Do("like", cy, {p2}, {}), Do("follow", cy, {bob}, {})}, NoOne)
Profiles ==
  Meet({Do("updateProfile", ann, {}, {bio})}, {Do("updateProfile", ann, {}, {bio, avatar})},
       {Do("updateProfile", ann, {}, {avatar}), By("deleteMe", ann)}, NoOne)
Followings ==
  Meet({Do("getFollowers", ann, {bob}, {}), Do("getFollowing", bob, {cy}, {})},
       {Do("follow", cy, {ann}, {}), Do("unfollow", cy, {bob}, {})},
       {By("deleteMe", ann)}, NoOne)
Doubles ==
  Meet({Do("like", ann, {p2}, {})}, {Do("like", ann, {p2}, {}), Do("unlike", ann, {p2}, {})},
       {Do("unlike", ann, {p2}, {}), Do("deletePost", bob, {p2}, {})}, NoOne)

(* Every route by itself, with every flaw.                                 *)
Single == {By(op, cy) : op \in {"register", "login", "refresh", "logout", "createPost",
                                "getMe", "updatePost",
                                "updateProfile", "homeFeed", "upload", "getNotifications",
                                "markRead", "markAllRead", "countUnread", "health",
                                "userHealth", "contentHealth", "feedHealth",
                                "notificationHealth", "storageHealth"}}
  \cup {Do("updateProfile", cy, {}, {bio})}
  \cup {Do(op, cy, {bob}, {}) : op \in {"getFollowers", "getFollowing"}}
  \cup {Do(op, cy, {p1}, {}) : op \in {"getPost", "createReply", "getReplies", "bookmark",
                                       "unbookmark"}}
Alone ==
  Meet({[c EXCEPT !.flaw = f] : c \in Single, f \in
          {None, "rate", "body", "param", "limit", "file", "content", "secret", "blank"}},
       NoOne, NoOne, NoOne)

MCOffered == Scrolls \cup Timelines \cup Threads \cup Uploads \cup Goodbyes \cup Profiles
  \cup Followings \cup Doubles \cup Alone
=============================================================================
