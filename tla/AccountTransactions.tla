------------------------- MODULE AccountTransactions -------------------------
(***************************************************************************)
(* The transactions of accounts, sessions, rate limits and the retention   *)
(* cleanup, as sequences of statements.                                    *)
(***************************************************************************)
EXTENDS Transactions

\* ---------------------------------------------------------------- accounts

RotateSession(user, session, new) ==
    <<One(Accounts!RevokeOwnedSession(session, user), "refused"), Accounts!InsertSession(new, user)>>

\* link: the subject has no account yet.  One of another user is refused.
UpgradeGoogle(user, session, subject, new, link) ==
    LockUser(user)
        \o <<Check(One(Accounts!FindGoogleIdentityBySubject(subject), link), [user |-> {user}]),
             Accounts!DeleteAnonymousBootstrapsByUser(user)>>
        \o RotateSession(user, session, new)

LinkGoogle(user, session, subject, new) ==
    <<Duplicate(Accounts!InsertGoogleIdentity(new, user, subject), "refused"),
      Accounts!DeleteAnonymousBootstrapsByUser(user)>>
        \o RotateSession(user, session, new)

\* user is the one the identity belongs to, session that of the visitor.
LoginGoogle(user, session, subject, new) ==
    <<Check(One(Accounts!FindGoogleIdentityBySubject(subject), "refused"), [user |-> {user}])>>
        \o LockUser(user)
        \o <<One(Accounts!RevokeSession(session), "refused"), Accounts!InsertSession(new, user)>>

\* The reservations of running generations, and the exposure of usages that
\* no running generation stands for any more, become unattributed cost.
DeleteAccount(user) ==
    LockUser(user)
        \o <<Goals!LockAccountGoalIDs(user), Goals!LockAccountGoalDraftIDs(user),
             Cycles!LockAccountCycleIDs(user), AI!LockAccountRunningGenerationExposures(user),
             AI!LockAccountUnfinalizedUsageExposures(user), AI!ListAccountMonthlyExposures(user),
             Each(AI!ReleaseAccountGenerationReservationCAS(user)),
             Each(AI!MoveAccountExposureToUnattributedCAS),
             AI!DeleteReleasedAccountUsageExposureCAS(user),
             One(Accounts!DeleteAccountUserCAS(user), "refused")>>

\* ---------------------------------------------------------------- sessions

\* A bootstrap key that is known and fresh resumes its user; one that has
\* expired, or is unknown, makes a new user.  moved: the key belongs to
\* another user than the given one.
CreateOrResumeAnonymous(key, user, new, create, recreate, moved) ==
    <<Differs(Check(One(Accounts!LocateAnonymousBootstrap(key), create), [user |-> {user}]), moved)>>
        \o LockUser(user)
        \o <<Differs(Check(One(Accounts!LockAnonymousBootstrapByUser(key, user), "refused"),
                           [fresh |-> {TRUE}]), recreate),
             Accounts!InsertSession(new, user)>>

\* Losing the race for the key starts over with the given program, once.
CreateAnonymous(key, new, again) ==
    <<Accounts!InsertAnonymousUser(new), Accounts!InsertSession(new, new),
      RetryAs(Accounts!InsertAnonymousBootstrap(key, new), again)>>

RecreateAnonymous(key, new, again) ==
    <<Accounts!DeleteAnonymousBootstrapByKeyHash(key)>> \o CreateAnonymous(key, new, again)

\* The session may be gone or revoked by now: nothing is touched then.
Touch(session, user) ==
    <<One(Accounts!TouchLocated(session), "commit"), One(Accounts!TouchUser(user), "commit"),
      One(Accounts!TouchLocked(session, user), "commit"), Accounts!TouchSession(session, user),
      Update("users", [id |-> {user}])>>

ConvergeCSRF(session) == <<One(Accounts!ConvergeSessionCSRF(session), "refused")>>

\* ------------------------------------------------- rate limits and cleanup

\* The counters move even when the request is refused afterwards.
CheckAnonymousRate(address, bucket) ==
    <<Accounts!AcquireAnonymousIPRateLimitGuard(address),
      One(Accounts!AdvanceAnonymousIPRateLimitGuard(address), "error"),
      Accounts!IncrementAnonymousIPHourBucket(bucket), Accounts!CountAnonymousIPRollingUsage(bucket)>>

CountCandidates ==
    <<Snapshot, Accounts!CountCleanupAIUsageEvents, Accounts!CountCleanupAbuseRateBuckets,
      Accounts!CountCleanupAnonymousRateLimitGuards>>

DeleteAIUsageEventsBatch == <<Accounts!DeleteCleanupAIUsageEventsBatch>>

DeleteAbuseRateBucketsBatch == <<Accounts!DeleteCleanupAbuseRateBucketsBatch>>

DeleteAnonymousRateLimitGuardsBatch == <<Accounts!DeleteCleanupAnonymousRateLimitGuardsBatch>>

=============================================================================
