---------------------------- MODULE MCFrontEnds ----------------------------
EXTENDS FrontEnds

CONSTANTS p1, p2, p3, hello, bye

MCTexts == {hello, bye}
MCPeers == {p1, p2, p3}

\* Two keep the name that every node has at first.
MCPeerName == [p \in MCPeers |-> IF p = p3 THEN "lab" ELSE "eujeno-node"]

Session(views, present, moving, atATime, clicks, faults, turns) ==
    [views |-> views, present |-> present,
     moving |-> moving, polls |-> atATime[1], lists |-> atATime[2],
     clicks |-> clicks, faults |-> faults, turns |-> turns]

MCPlaces ==
    {<< <<0, 0>>, <<3, 0>>, <<0, 4>>, <<9, 9>>, <<6, 1>>, <<2, 8>> >>,
     << <<0, 0>>, <<9, 9>>, <<1, 1>>, <<8, 8>>, <<0, 7>>, <<7, 0>> >>}
MCTyped == {[field |-> "region", value |-> "us-east"]} \union
           {[field |-> "telemetry", value |-> on] : on \in BOOLEAN}
MCAgents == {{}, {"windows"}, {"linux"}, {"linux", "android"}}
MCPageWidths == {1, 360, 1024}

\* The page of the network: both polls with a failure and a change; polls
\* that overlap; peers that go; peers that share a name; its button; left for
\* the chat and back.  The chat.  The settings: with a failure, without, and
\* beside a poll that sees their effect.  The landing page.
MCSessions ==
    {Session({"network"}, {}, {p1}, <<1, 1>>, 0, 1, 1),
     Session({"network"}, {}, {p1}, <<2, 0>>, 0, 1, 1),
     Session({"network"}, {}, {p1, p2}, <<0, 2>>, 0, 1, 1),
     Session({"network"}, {}, {p1, p2}, <<1, 0>>, 0, 0, 2),
     Session({"network"}, {p1, p2}, {p1}, <<1, 0>>, 0, 0, 1),
     Session({"network"}, {p1, p2, p3}, {p1, p2, p3}, <<0, 1>>, 0, 0, 1),
     Session({"network"}, {}, {}, <<0, 0>>, 3, 1, 1),
     Session({"network", "chat"}, {p1}, {}, <<1, 1>>, 2, 0, 0),
     Session({"network", "chat"}, {}, {}, <<0, 0>>, 6, 0, 0),
     Session({"network", "settings"}, {}, {}, <<0, 0>>, 3, 1, 1),
     Session({"network", "settings"}, {}, {}, <<0, 0>>, 4, 0, 1),
     Session({"network", "settings"}, {}, {}, <<1, 0>>, 2, 0, 1),
     Session({}, {}, {}, <<0, 0>>, 0, 0, 0)}

MCOneSession == {Session({"network"}, {}, {p1}, <<1, 0>>, 0, 0, 1)}

=============================================================================
