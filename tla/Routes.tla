-------------------------------- MODULE Routes --------------------------------
(***************************************************************************)
(* The static side of the api-gateway: its routes, what each handler       *)
(* refuses before it calls a service, the deadlines of the gRPC clients,   *)
(* and the way of an error from a service to an HTTP status.               *)
(***************************************************************************)
EXTENDS Integers

(* What a handler may refuse with 400 by itself, the service it calls, and *)
(* the status of a success.                                                *)
Handler(refuses, service, ok) == [refuses |-> refuses, service |-> service, ok |-> ok]

PostBody == {"body"}        \* ShouldBindJSON: content is required
UserBody == {"body"}        \* and so are the fields of accounts and sessions
Param == {"param"}          \* an empty path parameter
Size == {"limit"}           \* a limit that is no number or out of range

PostHandlers ==
  [contentHealth |-> Handler({}, "content", 200),
   createPost    |-> Handler(PostBody, "content", 201),
   getPost       |-> Handler(Param, "content", 200),
   updatePost    |-> Handler(PostBody \cup Param, "content", 200)]
ReplyHandlers ==
  [deletePost  |-> Handler(Param, "content", 204),
   createReply |-> Handler(PostBody \cup Param, "content", 201),
   getReplies  |-> Handler(Size \cup Param, "content", 200)]
LikeHandlers ==
  [like |-> Handler(Param, "content", 200), unlike |-> Handler(Param, "content", 200)]
BookmarkHandlers ==
  [bookmark   |-> Handler(Param, "content", 200),
   unbookmark |-> Handler(Param, "content", 200)]
RepostHandlers ==
  [repost |-> Handler(Param, "content", 200), unrepost |-> Handler(Param, "content", 200)]
FollowHandlers ==
  [follow |-> Handler(Param, "content", 200), unfollow |-> Handler(Param, "content", 200)]
ListHandlers ==
  [getFollowers |-> Handler(Size \cup Param, "content", 200),
   getFollowing |-> Handler(Size \cup Param, "content", 200)]
SessionHandlers ==
  [userHealth |-> Handler({}, "user", 200),
   register   |-> Handler(UserBody, "user", 201),
   login      |-> Handler(UserBody, "user", 200),
   refresh    |-> Handler(UserBody, "user", 200),
   logout     |-> Handler(UserBody, "user", 200)]
AccountHandlers ==       \* getMe then calls content-service
  [getMe         |-> Handler({}, "user", 200),
   updateProfile |-> Handler(UserBody, "user", 200),
   deleteMe      |-> Handler({}, "user", 200)]
FeedHandlers ==
  [feedHealth |-> Handler({}, "feed", 200), homeFeed |-> Handler(Size, "feed", 200)]
(* A bad limit of the notifications is replaced by 20, not refused.        *)
NotificationHandlers ==
  [x \in {"notificationHealth", "getNotifications", "markRead", "markAllRead",
          "countUnread"} |->
     Handler({}, "notification", 200)]
StorageHandlers ==       \* no file, or one above 5 MB
  [storageHealth |-> Handler({}, "storage", 200),
   upload        |-> Handler({"file"}, "storage", 201)]
HealthHandlers == [health |-> Handler({}, "none", 200)]     \* the gateway's own

(* Tables of different routes as one.                                      *)
Together(tables) ==
  [route \in UNION {DOMAIN t : t \in tables} |->
     (CHOOSE t \in tables : route \in DOMAIN t)[route]]

Handlers == Together(
  {PostHandlers, ReplyHandlers, LikeHandlers, BookmarkHandlers, RepostHandlers,
   FollowHandlers, ListHandlers, SessionHandlers, AccountHandlers, FeedHandlers,
   NotificationHandlers, StorageHandlers, HealthHandlers})
Routes == DOMAIN Handlers

(* The groups of the router: the rest sits behind AuthMiddleware; /health  *)
(* exists outside /api, too, where no limiter counts.                      *)
HealthRPCs == {"userHealth", "contentHealth", "feedHealth", "notificationHealth",
               "storageHealth"}
Open == {"register", "login", "refresh", "health"} \cup HealthRPCs
Unlimited == {"health"}
-----------------------------------------------------------------------------
(* The RPCs of each server that map their errors to a gRPC code.           *)
PostRPCs == {"createPost", "getPost", "deletePost", "createReply", "getReplies"}
InteractionRPCs == {"like", "unlike", "bookmark", "unbookmark", "repost", "unrepost"}
SocialRPCs == {"follow", "unfollow", "getFollowers", "getFollowing", "getTimeline"}
RawRPCs == {"updatePost"}        \* returns the error of the service as it is
UserRPCs == {"register", "login", "refresh", "logout", "getMe", "updateProfile", "deleteMe"}

ContentErrors ==
  [invalid |-> "InvalidArgument", missing |-> "NotFound",
   forbidden |-> "PermissionDenied", failed |-> "Internal"]
UserErrors ==
  [denied |-> "Unauthenticated", duplicate |-> "AlreadyExists", missing |-> "NotFound",
   forbidden |-> "PermissionDenied", invalid |-> "InvalidArgument", failed |-> "Internal"]
StorageErrors == [invalid |-> "InvalidArgument", failed |-> "Internal"]
FeedErrors == [failed |-> "Internal"]
NotificationErrors == [failed |-> "Unknown"]      \* raw, like updatePost

Errors(route) ==
  IF route \in RawRPCs THEN [o \in DOMAIN ContentErrors |-> "Unknown"]
  ELSE IF route \in HealthRPCs THEN [failed |-> "Unavailable"]
  ELSE [content |-> ContentErrors, user |-> UserErrors, storage |-> StorageErrors,
        feed |-> FeedErrors, notification |-> NotificationErrors,
        none |-> << >>][Handlers[route].service]

(* HandleGRPCError.                                                        *)
HttpCode(code) ==
  CASE code = "InvalidArgument"  -> 400
    [] code = "Unauthenticated"  -> 401
    [] code = "PermissionDenied" -> 403
    [] code = "NotFound"         -> 404
    [] code = "AlreadyExists"    -> 409
    [] OTHER                     -> 500

(* The handlers of notifications and of health do not look at the code.    *)
ErrorStatus(route, code) ==
  IF route \in HealthRPCs \/ Handlers[route].service = "notification" THEN 503
  ELSE HttpCode(code)

Status(route, outcome) ==
  IF outcome = "ok" THEN Handlers[route].ok ELSE ErrorStatus(route, Errors(route)[outcome])
-----------------------------------------------------------------------------
(* The gRPC clients of the gateway: seconds per call.                      *)
ContentClient ==
  [route \in {"contentHealth"} \cup PostRPCs \cup RawRPCs \cup InteractionRPCs \cup SocialRPCs |-> 3]
UserClient == [route \in {"userHealth"} \cup UserRPCs |-> 3]
FeedClient == [route \in DOMAIN FeedHandlers |-> 3]
NotificationClient == [route \in DOMAIN NotificationHandlers |-> 3]
StorageClient == [storageHealth |-> 3, upload |-> 10]
Deadline == Together({ContentClient, UserClient, FeedClient, NotificationClient, StorageClient})

WriteTimeout == 10       \* of the gateway's http.Server, from the end of the header
Cut == -1                \* the connection is closed without an answer

(* A call that uses up the server's own time leaves none for an answer.    *)
TimeOutStatus(route) ==
  IF Deadline[route] >= WriteTimeout THEN Cut ELSE ErrorStatus(route, "DeadlineExceeded")
=============================================================================
