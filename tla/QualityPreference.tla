-------------------------- MODULE QualityPreference --------------------------
(***************************************************************************)
(* The saved quality wish (quality/preference.rs) and the cap of the       *)
(* edition (quality/edition.rs): which mode of a phone's list a wish with  *)
(* automatic fields stands for.                                            *)
(***************************************************************************)
EXTENDS Integers, Sequences, SequencesExt

Wish(width, height, fps) == [width |-> width, height |-> height, fps |-> fps]
AutoWish == Wish(0, 0, 0)
NoModeFound == Wish(-1, -1, -1)
LongEdge(m)  == IF m.width > m.height THEN m.width ELSE m.height
ShortEdge(m) == IF m.width > m.height THEN m.height ELSE m.width
Distance(m, n) == IF m > n THEN m - n ELSE n - m

Valid(wish) ==
    /\ wish.width = 0 <=> wish.height = 0
    /\ wish.width <= 3840 /\ wish.height <= 2160 /\ wish.width % 2 = 0 /\ wish.fps <= 60
(* A phone's mode also has a bitrate, which is not zero.                   *)
Usable(mode) == mode.width # 0 /\ mode.height # 0 /\ mode.fps # 0 /\ Valid(mode)

Matches(wish, mode) ==
    /\ Usable(mode)
    /\ wish.width = 0 \/ (mode.width = wish.width /\ mode.height = wish.height)
    /\ wish.fps = 0 \/ mode.fps = wish.fps

(* The nearest to 30 fps from below, then the shape and the size nearest   *)
(* to 1280x720, then the smaller one.  |w/h - 16/9| is kept as a fraction. *)
FpsRank(mode) == IF mode.fps <= 30 THEN <<0, 30 - mode.fps>> ELSE <<1, mode.fps>>
AspectError(mode) == <<Distance(9 * mode.width, 16 * mode.height), mode.height>>
AreaError(mode) == Distance(mode.width * mode.height, 1280 * 720)
FirstDifference(pairs) ==           \* the order of the first pair that differs
    \E i \in DOMAIN pairs : /\ pairs[i][1] < pairs[i][2]
                            /\ \A j \in 1 .. i - 1 : pairs[j][1] = pairs[j][2]
\* Mutant: the faster mode is the better one.
Better_Faster(a, b) ==
    FirstDifference(<< <<b.fps, a.fps>>, <<AreaError(a), AreaError(b)>>,
                       <<a.width, b.width>>, <<a.height, b.height>> >>)
Better(a, b) ==
    LET ra == FpsRank(a)  rb == FpsRank(b)  ea == AspectError(a)  eb == AspectError(b)
    IN  FirstDifference(<< <<ra[1], rb[1]>>, <<ra[2], rb[2]>>,
                           <<ea[1] * eb[2], eb[1] * ea[2]>>, <<AreaError(a), AreaError(b)>>,
                           <<a.width, b.width>>, <<a.height, b.height>> >>)

(* min_by() keeps the first of two equal ones.                             *)
Resolve(wish, modes) ==
    LET matching == SelectSeq(modes, LAMBDA mode : Matches(wish, mode))
    IN  IF ~Valid(wish) \/ matching = <<>> THEN NoModeFound
        ELSE FoldLeft(LAMBDA best, mode : IF Better(mode, best) THEN mode ELSE best,
                      Head(matching), Tail(matching))

-----------------------------------------------------------------------------
(* EditionCap, in the public edition 1920x1080 at 30 fps. *)

AllowsSize(m) == LongEdge(m) \in 1 .. 1920 /\ ShortEdge(m) \in 1 .. 1080
Allows(mode) == AllowsSize(mode) /\ mode.fps \in 1 .. 30
Filtered(modes) == SelectSeq(modes, Allows)
(* Only the field above the cap becomes automatic.                         *)
ClampWish(wish) ==
    LET sized == IF wish.width # 0 /\ ~AllowsSize(wish) THEN Wish(0, 0, wish.fps) ELSE wish
    IN  IF wish.fps > 30 THEN [sized EXCEPT !.fps = 0] ELSE sized
CoerceWish(wish, modes) == IF Resolve(wish, modes) # NoModeFound THEN wish ELSE AutoWish

(* --quality WxH@fps takes no automatic field.                             *)
ParsedQuality(wish) == IF wish.width = 0 \/ wish.height = 0 \/ wish.fps = 0
                       THEN NoModeFound ELSE wish

-----------------------------------------------------------------------------
(* Inputs and what is asked of them. *)

SomeModes == {Wish(1280, 720, 30), Wish(1280, 720, 60), Wish(1280, 720, 15),
              Wish(1920, 1080, 30), Wish(640, 480, 30), Wish(720, 1280, 30),
              Wish(3840, 2160, 30), Wish(1281, 720, 30), Wish(1600, 900, 30)}
SomeWishes == SomeModes \union {Wish(w, h, f) : w \in {0, 1280}, h \in {0, 720}, f \in {0, 15, 60}}

(* What a wish stands for does not depend on the order a phone lists its   *)
(* modes in; an explicit field is never replaced, so that the mode asked   *)
(* for on the command line is that mode or none; Auto takes no mode above *)
(* 30 fps while there is another, and 1280x720 at 30 wherever it is        *)
(* offered; and a wish from above the cap finds a mode whenever the list   *)
(* that is left under the cap has one in its other field.                  *)
WishIsKept(wish, modes) ==
    LET mode == Resolve(wish, modes)
        low  == ClampWish(wish)
    IN  /\ Resolve(wish, Reverse(modes)) = mode
        /\ mode # NoModeFound =>
               /\ mode \in Range(modes) /\ Usable(mode)
               /\ wish.width # 0 => <<mode.width, mode.height>> = <<wish.width, wish.height>>
               /\ wish.fps # 0 => mode.fps = wish.fps
               /\ wish.fps = 0 /\ mode.fps > 30 =>
                      \A m \in Range(modes) : Matches(wish, m) => m.fps > 30
        /\ mode \in {ParsedQuality(wish), NoModeFound} \/ ParsedQuality(wish) = NoModeFound
        /\ wish = AutoWish /\ Wish(1280, 720, 30) \in Range(modes) => mode = Wish(1280, 720, 30)
        /\ ClampWish(low) = low
        /\ Resolve(low, Filtered(modes)) = NoModeFound =>
               \A m \in Range(Filtered(modes)) : ~Matches(low, m) \/ ~Valid(low)
        /\ Resolve(CoerceWish(wish, modes), modes) = NoModeFound =>
               \A m \in Range(modes) : ~Usable(m)
=============================================================================
