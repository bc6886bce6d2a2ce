-------------------------- MODULE DeviceDirectory --------------------------
(***************************************************************************)
(* What the de-duplication of sinks promises: the visible sinks are grouped *)
(* into devices, the sinks that can be reached under a common address, and  *)
(* one sink of highest priority is on offer per device.                     *)
(***************************************************************************)
EXTENDS Integers

CONSTANTS Sinks, Matches, Priority

VARIABLES
    visible,  \* the sinks that are known
    devices,  \* the sinks of each device
    offered   \* the sinks a stream would be started on

DeviceOf(s, ss) ==
    {s} \union {t \in ss : Matches[s] \intersect Matches[t] # {}}

Devices(ss) == {DeviceOf(s, ss) : s \in ss}

IsBest(s, dev) == s \in dev /\ \A t \in dev : Priority[t] =< Priority[s]

\* One best sink per device, and nothing else, is on offer.
Offers ==
    /\ \A dev \in devices : \E s \in offered : IsBest(s, dev)
    /\ \A s \in offered : \E dev \in devices : IsBest(s, dev)
    /\ \A s, t \in offered : \A dev \in devices : s \in dev /\ t \in dev => s = t

Init == visible = {} /\ devices = {} /\ offered = {}

\* The directory follows the visible sinks; a device that does not change keeps
\* the sink that was on offer.
Follow ==
    /\ devices' = Devices(visible')
    /\ Offers'
    /\ \A dev \in devices \intersect devices' : dev \intersect offered = dev \intersect offered'

Appear(s) == s \notin visible /\ visible' = visible \union {s} /\ Follow

Vanish(s) == s \in visible /\ visible' = visible \ {s} /\ Follow

Next == \E s \in Sinks : Appear(s) \/ Vanish(s)

Spec == Init /\ [][Next]_<<visible, devices, offered>>
=============================================================================
