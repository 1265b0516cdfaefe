---------------------------- MODULE SourceErrors ----------------------------
(***************************************************************************)
(* How the downloaders of symbolicator-service/src/download read what a    *)
(* source answers: the result of one attempt for every kind of failure.    *)
(* Statuses are classes: unauthorized (401, 403), found (302), missing     *)
(* (404), client (any other 4xx) and server (everything else).             *)
(***************************************************************************)

Types == {"attachment", "sentry", "http", "s3", "gcs", "gcs_token", "azure", "filesystem"}

\* GenericErrorHandler::handle_status
HandleStatus(status) ==
    CASE status \in {"unauthorized", "found"} -> "denied"
      [] status \in {"missing", "client"}     -> "not_found"
      [] status = "server"                    -> "download_error"

\* error_from_metadata: the codes that decide, whatever the status
ErrorFromMetadata(code) ==
    CASE code = "access" -> "denied"
      [] code = "absent" -> "not_found"
      [] OTHER           -> "none"

\* S3ErrorHandler::handle; a body that is too large or no XML has no code
HandleS3(status, code) ==
    IF ErrorFromMetadata(code) # "none" THEN ErrorFromMetadata(code)
    ELSE IF status = "unauthorized" THEN "denied"
    ELSE IF status = "missing" THEN "not_found"
    ELSE "download_error"

ErrorStatuses == {"unauthorized", "found", "missing", "client", "server"}
ErrorCodes    == {"none", "access", "absent", "other"}

HandleError(type, status, code) ==
    IF type = "s3" THEN HandleS3(status, code) ELSE HandleStatus(status)

\* download_source before any request: unusable locations, a failing presigning.
Unusable(type) == IF type = "http" THEN "not_found" ELSE "download_error"

\* The errors of one attempt (malformed and internal come from the transfer).
AttemptErrors(type) ==
    {"internal"} \union
    (IF type = "filesystem" THEN {"not_found"}
     ELSE {"timeout", "download_error", "malformed", Unusable(type)}
          \union {HandleError(type, s, c) : s \in ErrorStatuses, c \in ErrorCodes})
=============================================================================
