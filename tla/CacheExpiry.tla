---------------------------- MODULE CacheExpiry ----------------------------
(***************************************************************************)
(* The expiration rules of the file-system cache layer                     *)
(* (symbolicator-service/src/caching/fs.rs): how long an entry with a      *)
(* given status may be used, as functions of its access time, its creation *)
(* time and the current time.  Durations and instants are naturals; an     *)
(* unset option (Duration::MAX) is a duration beyond the horizon of the    *)
(* instance.  These operators are shared by the lookup path (Cacher) and   *)
(* by the cleanup process, as check_expiry is in the code.                 *)
(***************************************************************************)
EXTENDS Integers

CONSTANTS
    MaxUnusedFor,            \* CacheConfig::max_unused_for
    RetryMissesAfter,        \* CacheConfig::retry_misses_after
    RetryMissesAfterPublic,  \* CacheConfig::retry_misses_after_public
    RetryMalformedAfter,     \* CacheConfig::retry_malformed_after
    TouchEvery,              \* TOUCH_EVERY, one hour
    MetadataPrecision        \* ticks per second: metadata keeps whole seconds

ASSUME ExpiryConstants ==
    /\ MaxUnusedFor \in Nat
    /\ RetryMissesAfter \in Nat
    /\ RetryMissesAfterPublic \in Nat
    /\ RetryMalformedAfter \in Nat
    /\ TouchEvery \in Nat \ {0}
    /\ MetadataPrecision \in Nat \ {0}

(***************************************************************************)
(* CacheContents, by the distinctions expiration makes: "negative" stands  *)
(* for NotFound, PermissionDenied, Timeout, DownloadError and Unsupported, *)
(* which are written to disk and expire alike; "internal" is               *)
(* InternalError, which is never written.                                  *)
(***************************************************************************)
Stored == {"ok", "negative", "malformed"}
Status == Stored \union {"internal"}

\* expiration_strategy
ExpirationStrategy(status) ==
    IF status = "ok" THEN "None"
    ELSE IF status = "malformed" THEN "Malformed" ELSE "Negative"

\* SystemTime::elapsed().unwrap_or_default()
Elapsed(t, now) == IF t <= now THEN now - t ELSE 0

\* Duration::saturating_sub
SaturatingSub(a, b) == IF b <= a THEN a - b ELSE 0

TouchIn(d)   == [kind |-> "TouchIn", in |-> d]
RefreshIn(d) == [kind |-> "RefreshIn", in |-> d]
NotFound     == [kind |-> "NotFound", in |-> 0]

RetryAfter(isPublic) ==
    IF isPublic THEN RetryMissesAfterPublic ELSE RetryMissesAfter

\* Variants of compute_expiration_time with a bug: the retry interval starts
\* again at every load; malformed entries survive a restart.
ComputeExpirationTime_Restarted(status, atime, ctime, isPublic, start, now) ==
    CASE status = "ok" ->
           IF Elapsed(atime, now) > MaxUnusedFor THEN NotFound
           ELSE TouchIn(SaturatingSub(TouchEvery, Elapsed(atime, now)))
      [] status = "negative" ->
           IF SaturatingSub(RetryAfter(isPublic), Elapsed(ctime, now)) = 0 THEN NotFound
           ELSE RefreshIn(RetryAfter(isPublic))
      [] OTHER ->
           IF ctime < start \/ SaturatingSub(RetryMalformedAfter, Elapsed(ctime, now)) = 0
           THEN NotFound ELSE RefreshIn(RetryMalformedAfter)

ComputeExpirationTime_NoStart(status, atime, ctime, isPublic, start, now) ==
    LET retry   == IF status = "malformed" THEN RetryMalformedAfter ELSE RetryAfter(isPublic)
        refresh == SaturatingSub(retry, Elapsed(ctime, now))
    IN  IF status = "ok"
        THEN IF Elapsed(atime, now) > MaxUnusedFor THEN NotFound
             ELSE TouchIn(SaturatingSub(TouchEvery, Elapsed(atime, now)))
        ELSE IF refresh = 0 THEN NotFound ELSE RefreshIn(refresh)

(***************************************************************************)
(* compute_expiration_time: positive entries are usable until unused for   *)
(* longer than MaxUnusedFor and want a touch every TouchEvery; negative    *)
(* entries live RetryAfter from their creation; malformed ones live        *)
(* RetryMalformedAfter and die with the process that wrote them.           *)
(***************************************************************************)
ComputeExpirationTime(status, atime, ctime, isPublic, start, now) ==
    LET retry   == IF status = "malformed" THEN RetryMalformedAfter
                                           ELSE RetryAfter(isPublic)
        refresh == SaturatingSub(retry, Elapsed(ctime, now))
    IN  CASE ExpirationStrategy(status) = "None" ->
               IF Elapsed(atime, now) > MaxUnusedFor
               THEN NotFound
               ELSE TouchIn(SaturatingSub(TouchEvery, Elapsed(atime, now)))
          [] ExpirationStrategy(status) = "Negative" ->
               IF refresh = 0 THEN NotFound ELSE RefreshIn(refresh)
          [] OTHER ->
               IF ctime < start \/ refresh = 0 THEN NotFound ELSE RefreshIn(refresh)

\* A variant that keeps positive items in memory past the next touch.
ForFreshStatus_NoTouch(status) ==
    CASE ExpirationStrategy(status) = "None"     -> TouchIn(2 * MaxUnusedFor)
      [] ExpirationStrategy(status) = "Negative" -> RefreshIn(RetryMissesAfter)
      [] OTHER                                   -> RefreshIn(RetryMalformedAfter)

(***************************************************************************)
(* ExpirationTime::for_fresh_status: what a freshly computed entry gets in *)
(* memory.  Public entries too get the private retry_misses_after.         *)
(***************************************************************************)
ForFreshStatus(status) ==
    CASE ExpirationStrategy(status) = "None"     -> TouchIn(TouchEvery)
      [] ExpirationStrategy(status) = "Negative" -> RefreshIn(RetryMissesAfter)
      [] OTHER                                   -> RefreshIn(RetryMalformedAfter)

WasTouched(e)     == e = TouchIn(TouchEvery)
AsInstant(e, now) == now + e.in

\* timestamp::serialize: the creation time is written in whole seconds.
Timestamp(t) == t - (t % MetadataPrecision)

\* The longest a stored error may live, whatever its scope.
MaxRetry(status) ==
    IF status = "malformed" THEN RetryMalformedAfter
    ELSE IF RetryMissesAfter <= RetryMissesAfterPublic
         THEN RetryMissesAfterPublic ELSE RetryMissesAfter
=============================================================================
