------------------------------ MODULE MCControl ------------------------------
(* Small instances of ControlSystem. The lower-case constants are model     *)
(* values; each configuration picks its own readings and request bodies.    *)
EXTENDS ControlSystem

CONSTANTS red, blue, wifiGreen, absent, noReading, none

NoKeys == [tmode |-> absent, desired |-> absent, max |-> absent,
           mfan |-> absent, cmode |-> absent, curtain |-> absent,
           colour |-> absent, bright |-> absent]

MCColours == {red, blue}
MCWifiColours == {wifiGreen}
MCSchedPcts == {70}

\* 31 degrees, between the default set point and threshold
WarmOnly == {62}
\* Below, at, inside and above the default range, and a disconnected sensor
AllReadings == {50, 58, 62, 71, noReading}

\* The curtain is switched to the agenda, placed by hand (240 is cut to 100),
\* or left out of a request about the light
CurtainRequests ==
  { [NoKeys EXCEPT !.cmode = "auto"],
    [NoKeys EXCEPT !.cmode = "manual", !.curtain = 240],
    [NoKeys EXCEPT !.colour = red] }

\* No request carries curtain_percent
UnnamedCurtainRequests ==
  { [NoKeys EXCEPT !.cmode = "auto"], [NoKeys EXCEPT !.colour = red] }

\* One request within the limits, of two parts, and one about the third part
\* whose thresholds are inverted and whose percentage is clamped
MixedRequests ==
  { [NoKeys EXCEPT !.cmode = "auto", !.bright = 20],
    [NoKeys EXCEPT !.desired = 60, !.max = 50, !.mfan = 200,
                   !.curtain = 300] }
\* Inside the default range and above that of the second request, and a
\* disconnected sensor, which leaves the boot's 25 degrees, below both
MixedReadings == {62, noReading}

\* A threshold below the set point, a set point above every range, and manual
\* modes whose percentages are clamped (200) and wrapped (300 is 44)
ThermalRequests ==
  { [NoKeys EXCEPT !.tmode = "auto", !.desired = 60, !.max = 50],
    [NoKeys EXCEPT !.tmode = "manual", !.mfan = 200],
    [NoKeys EXCEPT !.mfan = 300],
    [NoKeys EXCEPT !.desired = 900, !.max = -900],
    [NoKeys EXCEPT !.desired = 56, !.max = 70] }

NoPcts == {}
=============================================================================
