----------------------------- MODULE MCCommands -----------------------------
(* Levels for CommandWorld, each small and each about one mechanism.        *)
EXTENDS CommandWorld

R(base, next, arg, len) == [base |-> base, next |-> next, arg |-> arg, len |-> len,
                            once |-> FALSE, multi |-> FALSE, authored |-> FALSE]
Once(r) == [r EXCEPT !.once = TRUE]
Multi(r) == [r EXCEPT !.multi = TRUE]
Authored(r) == [r EXCEPT !.authored = TRUE]

\* A condition with a jump and a message, which runs the chain at says.
Conditions(says) == <<
  Once(R("contact", 2, 0, 0)), R("latch", 3, says, 0), R("jump", 4, 8, 0),
  Once(R("if", 5, 0, 0)), R("give", 6, 0, 0), R("act", 0, 0, 0),
  R("toggle", 0, 6, 0), R("act", 9, 0, 0), R("if", 0, 0, 0),
  Once(R("click", 2, 0, 0)), R("sector", 8, 0, 0) >>

\* A Count that is stepped by a trigger, by an expired Delay and by a hook.
Counts(says, by) == <<
  R("contact", 2, 0, 0), R("latch", 3, says, 0), R("modify", 13, 4, by),
  R("count", 5, 0, 2), Once(R("act", 0, 0, 0)),
  R("contact", 7, 0, 0), R("delay", 3, 0, 1), R("hook", 2, 0, 0),
  R("act", 0, 0, 0), Multi(R("count", 5, 0, 2)), R("click", 10, 0, 0),
  R("timer", 3, 0, 1), R("talk", 0, says, 0) >>

\* Delays, effects, an authored effect, an inline chain and journeys.
Effects == <<
  R("contact", 2, 0, 0), R("delay", 3, 0, 2), R("indexed", 0, 4, 0),
  Once(R("effect", 5, 0, 0)), Multi(R("delay", 6, 0, 1)), R("talk", 0, 0, 0),
  R("click", 3, 0, 0), Authored(R("effect", 0, 0, 0)), R("timer", 2, 0, 1) >>

\* Two Delays that run each other for ever.
Endless == <<
  R("contact", 2, 0, 0), R("delay", 3, 0, 1), R("delay", 2, 0, 2),
  R("sector", 6, 0, 0), R("hook", 3, 0, 0), R("effect", 3, 0, 0) >>

\* Three Delays for a queue of two: one that comes to an end, and two that run
\* themselves again, the second in every tick or in every other.
Crowd(len) == <<
  R("contact", 2, 0, 0), R("delay", 3, 0, 2), R("toggle", 0, 4, 1),
  R("contact", 5, 0, 0), R("delay", 5, 0, 1),
  R("contact", 7, 0, 0), R("delay", 7, 0, len) >>

MCLevels == {Conditions(0), Conditions(7), Counts(0, 1), Counts(9, 1),
             Counts(0, -1), Effects, Endless,
             Crowd(1), Crowd(2)}
=============================================================================
