----------------------------- MODULE MCTortilla ----------------------------
(***************************************************************************)
(* Small sets of commands, headings and queue sizes for model checking.    *)
(***************************************************************************)
EXTENDS Tortilla

Move(s, a, m) == [spin |-> s, joyAngle |-> a, joyMag |-> m]

\* The extremes of spin, of which one can only come from a short frame over an
\* uninitialized buffer, and -1, the zero spin that is reversed; the stick
\* full, centred and between.
MCMoves == {Move(27805, 0, 500), Move(-500, 9000, 0), Move(-1, 9000, 250)}

\* One steering command and a stop, for the runs with long histories.
MCSteer == {Move(499, 9000, 500)}
MCSpin  == {Move(250, 0, 0), Move(-1, 0, 0)}
MCLive  == {Move(-250, 9000, 500), Move(499, 0, 0)}

\* Headings on and opposite the full stick of MCMoves; rate and trim turn the
\* pulses away from it.
MCOpposite == {0, 18000}
MCTwoHeadings == {0, 9000}

MCNone == {}
MCGyro == {5}
MCTrans == {-20}
MCRates == {0, 30}
MCStill == {0}
MCOne == {1}
MCTwo == {2}
============================================================================
