---------------------------- MODULE MCDashboard ----------------------------
EXTENDS Dashboard

CONSTANTS None, Night, Partial, p1, p2

Visit(pages, senders, messages, recipients, months, windows) ==
    [pages |-> {"overview"} \cup pages, senders |-> senders, messages |-> messages,
     recipients |-> recipients, months |-> months, windows |-> windows]

\* Apps and quota, each with the sends that matter to it; sends alone.
QuotaVisits ==
    {Visit({"apps"}, {p1}, 1, 1, 0, {}),
     Visit({"quota"}, {p1}, 2, 2, 1, {}),
     Visit({}, {p1, p2}, 3, 2, 1, {})}

\* Live messages with a sender; quiet hours with another client; apps and
\* quota with nobody else.
LiveVisits ==
    {Visit({"messages"}, {p1}, 2, 1, 0, {}),
     Visit({"quiet-hours"}, {}, 0, 1, 0, {None, Night}),
     Visit({"apps", "quota"}, {}, 0, 1, 0, {})}
=============================================================================
