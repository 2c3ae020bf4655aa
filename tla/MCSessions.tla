----------------------------- MODULE MCSessions -----------------------------
(* One address, two tabs; a session and the limiter's window both end well    *)
(* before the end of time.                                                    *)
EXTENDS Sessions

CONSTANTS home, tab1, tab2

=============================================================================
