------------------------------ MODULE MCSettings ------------------------------
(* A small instance of Settings for TLC.                                    *)
EXTENDS Settings

\* Tenths; the default durations are 1 to 3 of at most 4.
TenthsAndTicks ==
  [ edge_width |-> 2, tap_min_duration |-> 1, tap_max_duration |-> 3,
    double_tap_timeout |-> 2, double_tap_max_distance |-> 1,
    swipe_min_distance |-> 1, step |-> 1 ]

Edges == {"Left", "Top"}
SomeKeys ==
  {[key |-> "edge_width", value |-> v] : v \in {4, 5}}
  \cup {[key |-> "Left", value |-> v] : v \in {0, 1, 3}}
  \cup {[key |-> "Right", value |-> v] : v \in {4, 5}}
  \cup {[key |-> "tap_min_duration", value |-> v] : v \in {0, 3, 5}}
  \cup {[key |-> "tap_max_duration", value |-> v] : v \in {0, 1, 4, 5}}
  \cup {[key |-> "double_tap_timeout", value |-> v] : v \in {0, 5}}
  \cup {[key |-> "double_tap_max_distance", value |-> v] : v \in {0, 10, 11}}
  \cup {[key |-> "swipe_min_distance", value |-> v] : v \in {0, 3, 11}}

SomeGestures ==
  {[zone |-> z, direction |-> d, action |-> "one"] :
     z \in Edges, d \in {"Up", "Right", "Tap", "DoubleTap"}}
  \cup {[zone |-> "Right", direction |-> "Left", action |-> "one"],
        [zone |-> "middle", direction |-> "Up", action |-> "one"],
        [zone |-> "Left", direction |-> "twice", action |-> "one"],
        [zone |-> "Left", direction |-> "Up", action |-> "empty"],
        [zone |-> "Left", direction |-> "Up", action |-> "log"]}

Actions(u, d, l, r) ==
  [x \in Directions |-> CASE x = "Up" -> u [] x = "Down" -> d
                          [] x = "Left" -> l [] x = "Right" -> r]
SomeSliders ==
  {[zone |-> z, step |-> s, action |-> a] :
     z \in Edges, s \in {None, 5},
     a \in {Actions("one", "two", NoAction, NoAction), Actions(NoAction, NoAction, "one", "two")}}
  \cup {[zone |-> "Left", step |-> s, action |-> Actions("one", "two", NoAction, NoAction)] :
          s \in {0, 11}}
  \cup {[zone |-> "Left", step |-> None, action |-> a] :
          a \in {Actions("one", NoAction, NoAction, NoAction), Actions("one", "empty", NoAction, NoAction),
                 Actions("one", "two", "one", NoAction)}}

=============================================================================
