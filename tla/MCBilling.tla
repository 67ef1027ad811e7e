------------------------------- MODULE MCBilling -------------------------------
EXTENDS Billing, TLC
CONSTANTS a1, a2

MCAttempt == {a1, a2}
MCFinal == {"applied", "ignored"}
MCEvent == 1 .. 4
MCWebhook == 1 .. 3

Ev(k, t, s, c, p) == [kind |-> k, at |-> t, status |-> s, cancel |-> c, period |-> p]
Plain(k, t) == Ev(k, t, "none", FALSE, 0)
Sub(t, s, p) == Ev("subscription", t, s, FALSE, p)
Deleted(t, p) == Ev("deleted", t, "canceled", FALSE, p)
Paid(t, p) == Ev("paid", t, "none", FALSE, p)
Never == Plain("other", 3)
Script(x, y, z) == [e \in MCEvent |-> <<x, y, z, Never>>[e]]
Pair(x, y) == Script(x, y, Never)
Asked(x, y, t) == [e \in MCEvent |-> <<x, y, Never, Plain("other", t)>>[e]]

MCScripts == {
  Script(Plain("refund", 1), Sub(1, "active", 1), Paid(2, 1)),
  Script(Paid(1, 1), Sub(2, "past_due", 2), Paid(2, 2)),
  Asked(Sub(1, "trialing", 1), Deleted(2, 1), 1),
  Pair(Ev("checkout", 1, "trialing", FALSE, 0), Ev("subscription", 2, "active", TRUE, 1)),
  Pair(Plain("dispute", 1), Plain("won", 2)),
  Pair(Plain("failed", 1), Sub(1, "past_due", 1)),
  Pair(Paid(1, 1), Deleted(2, 1)),
  Pair(Plain("refund", 1), Plain("failed", 2)),
  Script(Plain("free", 1), Plain("partial", 2), Plain("other", 1)),
  Pair(Plain("refund", 1), Sub(2, "active", 1))
}
MCImpatient == {3}
================================================================================
