---------------------------- MODULE ProviderError ---------------------------
(***************************************************************************)
(* How a failed transfer is named, retried and reported:                   *)
(* src/providers/provider_error.asm.  CURLcodes and af_status values are   *)
(* their names; each table of that file is a CASE.                         *)
(***************************************************************************)
EXTENDS Integers

OK == "ok"

\* The libcurl results the tables know, and one they do not.
CurlCodes ==
  { OK, "resolve_proxy", "resolve_host", "connect", "timedout",
    "ssl_connect", "peer_verify", "ssl_cacert_badfile", "ssl_issuer",
    "got_nothing", "partial_file", "recv", "send", "write",
    "aborted_by_callback", "unsupported_proto", "other" }

Verdicts ==
  { OK, "connect_failed", "dns_failed", "connect_timeout", "http_502",
    "http_503", "http_504", "tls", "timeout", "malformed", "status",
    "cancelled" }

RetryClasses ==
  { "connect_failed", "dns_failed", "connect_timeout",
    "http_502", "http_503", "http_504" }

\* curl_map, with the timeout split by whether the connection ever came up.
ClassifyCurl(code, connected) ==
  CASE code = OK -> OK
    [] code = "timedout" -> IF connected THEN "timeout" ELSE "connect_timeout"
    [] code \in {"resolve_proxy", "resolve_host"} -> "dns_failed"
    [] code \in {"connect", "unsupported_proto"} -> "connect_failed"
    [] code \in {"ssl_connect", "peer_verify", "ssl_cacert_badfile",
                 "ssl_issuer"} -> "tls"
    [] code \in {"got_nothing", "partial_file", "recv", "send"} -> "malformed"
    [] code \in {"write", "aborted_by_callback"} -> "cancelled"
    [] OTHER -> "status"

Is2xx(status) == status \in 200 .. 299

ClassifyStatus(status) ==
  CASE Is2xx(status) -> OK
    [] status = 502 -> "http_502"
    [] status = 503 -> "http_503"
    [] status = 504 -> "http_504"
    [] OTHER -> "status"

\* retry_map pairs each class with the verdict of the same name.
IsRetryable(verdict, mask) == verdict \in RetryClasses /\ verdict \in mask

\* herr_map, and its default.
ErrorId(verdict) ==
  CASE verdict \in {"connect_failed", "dns_failed"} -> "upstream_connect_failed"
    [] verdict \in {"connect_timeout", "timeout", "http_504"} -> "upstream_timeout"
    [] verdict = "tls" -> "upstream_tls_failed"
    [] OTHER -> "invalid_upstream_response"

=============================================================================
