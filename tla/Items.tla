-------------------------------- MODULE Items --------------------------------
(* The items that can be drawn (program/util.hpp), as the code lists them: runs of numbers *)
(* from a first to a last one.                                                             *)
EXTENDS Integers, Sequences
LOCAL INSTANCE SequencesExt

OneBehindTheOther(runs) ==
  FlattenSeq([k \in DOMAIN runs |->
                [j \in 1 .. runs[k][2] - runs[k][1] + 1 |-> runs[k][1] + j - 1]])

VALID_TMS ==
  OneBehindTheOther(<<
    <<1230, 1230>>, <<328, 419>>, <<618, 620>>, <<690, 693>> >>)

\* PKNX's GetRandomItemList.
VALID_HELD_ITEMS ==
  OneBehindTheOther(<<
    <<45, 53>>, <<76, 77>>, <<79, 85>>, <<107, 110>>, <<112, 112>>, <<116, 119>>, <<135, 136>>,
    <<213, 215>>, <<217, 225>>, <<228, 255>>, <<257, 259>>, <<265, 326>>, <<485, 491>>,
    <<537, 547>>, <<564, 570>>, <<639, 640>>, <<644, 650>>, <<846, 846>>, <<849, 849>>,
    <<879, 884>>, <<904, 920>>, <<1103, 1104>>, <<1109, 1129>>, <<1231, 1254>>, <<1581, 1582>>,
    <<1588, 1588>>, <<1592, 1592>>, <<1604, 1604>>, <<1606, 1606>>, <<1, 16>>, <<492, 500>>,
    <<576, 576>>, <<851, 851>>, <<55, 63>>, <<1580, 1580>>, <<149, 163>>, <<169, 174>>,
    <<184, 212>>, <<686, 688>>, <<17, 43>>, <<54, 54>>, <<134, 134>>, <<504, 504>>,
    <<591, 591>>, <<708, 709>>, <<852, 852>>, <<903, 903>>, <<1579, 1579>>, <<1130, 1229>>,
    <<86, 92>>, <<94, 94>>, <<106, 106>>, <<571, 571>>, <<580, 583>>, <<795, 796>>,
    <<1105, 1108>>, <<1084, 1099>>, <<1256, 1264>> >>)
=============================================================================
