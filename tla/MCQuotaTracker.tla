--------------------------- MODULE MCQuotaTracker ---------------------------
(* Instances of QuotaTracker for TLC. *)
EXTENDS QuotaTracker

MCSlots == {"s1", "s2"}

Cand(s, rpm, rpd, tpm, tpd) ==
    [slot |-> s, rpm |-> rpm, rpd |-> rpd, tpm |-> tpm, tpd |-> tpd]

\* The shapes the shipped registry has for one window: rpm and tpm
\* (registry/kimi.yaml), rpd alone (registry/cloudflare.yaml), and a key whose
\* override sets a limit of 0.
OneWindow == { Cand("s1", 2, NoLimit, 3, NoLimit),
               Cand("s2", NoLimit, 2, NoLimit, NoLimit),
               Cand("s2", NoLimit, NoLimit, NoLimit, 2),
               Cand("s1", 0, NoLimit, NoLimit, NoLimit) }

\* rpm and rpd together (registry/groq.yaml, gemini, cerebras, openrouter)
MinuteAndDay == { Cand("s1", 2, 3, NoLimit, NoLimit) }

\* rpd with tpm, which registry/schema.json allows
DayRequestsMinuteTokens == { Cand("s1", NoLimit, 2, 3, NoLimit) }

\* Every shape of limits
AllShapes == OneWindow \cup MinuteAndDay \cup DayRequestsMinuteTokens
=============================================================================
