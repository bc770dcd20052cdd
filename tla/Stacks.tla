--------------------------------- MODULE Stacks ---------------------------------
(***************************************************************************)
(* raven.utils.stacks and the exception chain of raven.events: which       *)
(* frames, which lines of source and which local variables an event shows, *)
(* and what slim_frame_data() takes away again. Pure functions, without    *)
(* recursive operators. Frames, lines and sizes are numbers; the texts     *)
(* themselves are left out.                                                *)
(***************************************************************************)
EXTENDS PyValues

(* The positions, counted from 0, of Python's s[a:b] for a list of length n. *)
Slice(n, a, b) ==
    LET at(i) == IF i < 0 THEN Max({n + i, 0}) ELSE Min({i, n})
    IN  {k \in 0..(n - 1) : at(a) <= k /\ k < at(b)}

(* int(x / 2) rounds towards zero. *)
Half(x) == IF x >= 0 THEN x \div 2 ELSE -((-x) \div 2)

-----------------------------------------------------------------------------
(* The lines around lineno (counted from 0). The loader of the module is   *)
(* asked first: "none" has no get_source(), "error" raises ImportError or  *)
(* IOError, "unknown" returns None, "source" returns so many lines of it.  *)
(* linecache gives cached lines, none of them for a file it cannot read.   *)

SourceLength(loader, source, cached) == IF loader = "source" THEN source ELSE cached

NoLines == [pre |-> {}, line |-> None, post |-> {}]

GetLinesFromFile(n, lineno, contextLines) ==
    LET lower == Max({0, lineno - contextLines})
        upper == Min({lineno + 1 + contextLines, n})
    IN  IF lineno >= n THEN NoLines     \* also of an empty source
        ELSE [pre |-> Slice(n, lower, lineno), line |-> lineno,
              post |-> Slice(n, lineno + 1, upper)]

(* Django's get_data_from_template(), without debug information: breaks    *)
(* are the ends of the lines, counted from 1; the error is from start to   *)
(* end. None is an error that no line holds alone.                         *)
TemplateLine(breaks, start, end) ==
    LET upto(n) == IF n = 1 THEN 0 ELSE breaks[n - 1]
        lines == {n \in DOMAIN breaks : start >= upto(n) /\ end <= breaks[n]}
    IN  IF lines = {} THEN None ELSE Max(lines)

(* source_lines[lineno - 3:lineno], [lineno] and [lineno + 1:lineno + 4]   *)
(* of count lines and an empty one with the number 0.                      *)
TemplateContext(count, lineno) ==
    IF lineno = None THEN NoLines
    ELSE [pre |-> Slice(count + 1, Max({lineno - 3, 0}), lineno), line |-> lineno,
          post |-> Slice(count + 1, lineno + 1, lineno + 4)]

(* The variables that are kept, of the sizes of their representations in   *)
(* the order of the dictionary: one that does not fit is left out, and     *)
(* those after it have their chance. None stands for f_locals that are no  *)
(* dictionary and cannot be made one.                                      *)
GetFrameLocals(sizes, maxVarSize) ==
    IF sizes = None THEN {}
    ELSE LET size[i \in 0..Len(sizes)] ==
                 IF i = 0 THEN 0
                 ELSE IF size[i - 1] + sizes[i] < maxVarSize THEN size[i - 1] + sizes[i]
                 ELSE size[i - 1]
         IN  {i \in DOMAIN sizes : size[i - 1] + sizes[i] < maxVarSize}

(* __traceback_hide__ hides a frame; f_locals that cannot be asked does not. *)
Hidden(frame) == frame.locals # None /\ frame.hide

(* iter_traceback_frames() and the same test in get_stack_info(): the      *)
(* positions of the frames that are shown.                                 *)
IterFrames(frames) == {i \in DOMAIN frames : ~ Hidden(frames[i])}

(* What get_stack_info() makes of a frame that has a line number. *)
FrameResult(frame, contextLines, maxVarSize) ==
    LET lineno == IF frame.lineno = 0 THEN 0 ELSE frame.lineno - 1
        lines == IF ~ frame.path THEN NoLines
                 ELSE GetLinesFromFile(SourceLength(frame.loader, frame.source, frame.cached),
                                       lineno, contextLines)
    IN  [of |-> frame, lineno |-> lineno + 1, lines |-> lines,
         vars |-> GetFrameLocals(frame.locals, maxVarSize)]

-----------------------------------------------------------------------------
(* slim_frame_data(): apps says of each frame whether in_app is set. The   *)
(* result are the frames that lose their variables and their context.      *)

Positions(apps, a) == {i \in DOMAIN apps : apps[i] = a}

(* Where i stands among the members of S, from 0. *)
Rank(S, i) == Cardinality({j \in S : j < i})

(* frames[half_max:-half_max] of the frames of S in their order: nothing   *)
(* at all if half_max is 0.                                                *)
Middle(S, allowance) ==
    LET half == Half(allowance)
    IN  {i \in S : Rank(S, i) \in Slice(Cardinality(S), half, -half)}

(* A plausible slip: the middle also when no system frame may stay. *)
TrimMiddle(system, allowance) == Middle(system, allowance)

TrimSystem(system, allowance) ==
    IF allowance > 0 THEN Middle(system, allowance) ELSE system

SlimFrameData(apps, frameAllowance) ==
    LET app == Positions(apps, TRUE)
        system == Positions(apps, FALSE)
        gone == TrimSystem(system, Max({frameAllowance - Cardinality(app), 0}))
        remaining == Len(apps) - frameAllowance - Cardinality(gone)
    IN  IF Len(apps) <= frameAllowance THEN {}
        ELSE gone \cup (IF remaining = 0 THEN {}
                        ELSE Middle(app, Cardinality(app) - remaining))

(* get_stack_info(): in_app is set later, by build_msg(), so that every    *)
(* frame is a system frame to slim_frame_data(). The frames are given by   *)
(* their positions in the stack (slim by those among the frames shown). No *)
(* frames stand for the TypeError that one without a line number raises.   *)
GetStackInfo(frames, contextLines, maxVarSize, frameAllowance) ==
    LET shown == IterFrames(frames)
    IN  IF \E i \in shown : frames[i].lineno = None THEN [frames |-> None, slim |-> {}]
        ELSE [frames |-> [i \in shown |-> FrameResult(frames[i], contextLines, maxVarSize)],
              slim |-> SlimFrameData([i \in 1..Cardinality(shown) |-> FALSE], frameAllowance)]

-----------------------------------------------------------------------------
(* _chained_exceptions() of exc: cause and context of every exception, and *)
(* whether __suppress_context__ is set. Outermost first; an exception that *)
(* was seen, or None, ends the chain.                                      *)

(* A plausible slip: the context is always followed. *)
ContextOnly(e, chain) == chain.context[e]

Successor(e, chain) ==
    IF chain.suppress[e] THEN chain.cause[e] ELSE chain.context[e]

Follow(seen, chain) ==
    LET next == Successor(Last(seen), chain)
    IN  IF next = None \/ next \in ToSet(seen) THEN seen ELSE Append(seen, next)

ChainedExceptions(exc, chain) ==
    LET walk[n \in 0..Cardinality(DOMAIN chain.cause)] ==
            IF n = 0 THEN <<exc>> ELSE Follow(walk[n - 1], chain)
    IN  walk[Cardinality(DOMAIN chain.cause)]

(* Exception.capture() inserts each at the front: the innermost is first.  *)
ExceptionValues(exc, chain) == Reverse(ChainedExceptions(exc, chain))

(* build_msg() and DjangoClient.build_msg(): in_app of a frame of a module, *)
(* given with its prefixes; None leaves it unset. What is set stays.       *)
InApp(set, module, includes, excludes) ==
    CASE set # None \/ includes = {} \/ module = {} -> set
      [] OTHER -> "raven" \notin module /\ includes \cap module # {}
                  /\ excludes \cap module = {}

DjangoInApp(set, module, includes, excludes) ==
    IF "django" \in module THEN FALSE ELSE InApp(set, module, includes, excludes)

=============================================================================
