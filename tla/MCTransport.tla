---------------------------- MODULE MCTransport ----------------------------
(* Two requests in a row of one Transport with the default three attempts;  *)
(* backoff 2 s and Retry-After below, between and above the delays and cap.   *)
EXTENDS Transport

MCRetryAfters == {0, 5, 90}
=============================================================================
