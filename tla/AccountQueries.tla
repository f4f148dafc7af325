--------------------------- MODULE AccountQueries ---------------------------
(***************************************************************************)
(* The queries about users, their sessions, bootstraps and identities, the *)
(* rate limits and the retention cleanup.  A bootstrap is fresh or not     *)
(* (expired), a session is revoked or not; a bucket or guard is old once   *)
(* its expiry has passed.                                                  *)
(***************************************************************************)
EXTENDS Statements

LockUser(user) == Lock("users", [id |-> {user}])

InsertAnonymousUser(id) == Insert("users", [id |-> id])

DeleteAccountUserCAS(user) == Delete("users", [id |-> {user}])

\* ---------------------------------------------------------------- sessions

GetSessionByTokenHash(session) == Select("sessions", [id |-> {session}, revoked |-> {FALSE}])

ConvergeSessionCSRF(session) == Update("sessions", [id |-> {session}, revoked |-> {FALSE}])

InsertSession(id, user) == Insert("sessions", [id |-> id, user |-> user, revoked |-> FALSE, seen |-> 0])

RevokeSession(session) ==
    Set(Update("sessions", [id |-> {session}, revoked |-> {FALSE}]), [revoked |-> TRUE])

RevokeOwnedSession(session, user) ==
    Set(Update("sessions", [id |-> {session}, user |-> {user}, revoked |-> {FALSE}]), [revoked |-> TRUE])

\* One statement of five parts: locate the session, lock its user, lock the
\* session, move its last activity forward, then that of the user.
TouchLocated(session) == Select("sessions", [id |-> {session}, revoked |-> {FALSE}])
TouchUser(user) == Lock("users", [id |-> {user}])
TouchLocked(session, user) == Lock("sessions", [id |-> {session}, user |-> {user}, revoked |-> {FALSE}])
TouchSession(session, user) ==
    Set(Update("sessions", [id |-> {session}, user |-> {user}, revoked |-> {FALSE}]), [seen |-> 1])

\* -------------------------------------------------------------- bootstraps

LocateAnonymousBootstrap(key) == Select("bootstraps", [id |-> {key}])

LockAnonymousBootstrapByUser(key, user) == Lock("bootstraps", [id |-> {key}, user |-> {user}])

DeleteAnonymousBootstrapByKeyHash(key) == Delete("bootstraps", [id |-> {key}])

DeleteAnonymousBootstrapsByUser(user) == Delete("bootstraps", [user |-> {user}])

InsertAnonymousBootstrap(key, user) ==
    Insert("bootstraps", [id |-> key, user |-> user, fresh |-> TRUE])

\* -------------------------------------------------------------- identities

FindGoogleIdentityBySubject(subject) == Select("identities", [subject |-> {subject}])

InsertGoogleIdentity(id, user, subject) ==
    Insert("identities", [id |-> id, user |-> user, subject |-> subject])

\* ------------------------------------------------------------- rate limits

\* A bucket lives until its expiry, which a later request moves forward.
IncrementRateBucket(bucket) ==
    Plus(Set(OrUpdate(Insert("buckets", [id |-> bucket, count |-> 1, old |-> FALSE])), [old |-> FALSE]),
         [count |-> 1])

IncrementAnonymousIPHourBucket(bucket) == IncrementRateBucket(bucket)

\* A new guard is inserted with expiry -infinity: old until it is advanced.
AcquireAnonymousIPRateLimitGuard(address) ==
    OrUpdate(Insert("guards", [id |-> address, old |-> TRUE]))

AdvanceAnonymousIPRateLimitGuard(address) ==
    Set(Update("guards", [id |-> {address}]), [old |-> FALSE])

CountAnonymousIPRollingUsage(bucket) == Select("buckets", [id |-> {bucket}])

\* ----------------------------------------------------------------- cleanup

CountCleanupAIUsageEvents ==
    Exists("usages", [content_deleted |-> {TRUE}, old |-> {TRUE}, final |-> {TRUE}])

CountCleanupAbuseRateBuckets == Exists("buckets", [old |-> {TRUE}])

CountCleanupAnonymousRateLimitGuards == Exists("guards", [old |-> {TRUE}])

DeleteCleanupAIUsageEventsBatch ==
    Skip(Delete("usages", [content_deleted |-> {TRUE}, old |-> {TRUE}, final |-> {TRUE}]))

DeleteCleanupAbuseRateBucketsBatch == Skip(Delete("buckets", [old |-> {TRUE}]))

DeleteCleanupAnonymousRateLimitGuardsBatch == Skip(Delete("guards", [old |-> {TRUE}]))

=============================================================================
