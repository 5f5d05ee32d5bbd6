\* The wall clock moves anywhere, backwards and beyond the window included;
\* every timestamp can arrive; processes start again at any time.
CONSTANTS
  Me = 2  Actor = {1, 2}
  MaxMs = 3  MaxLogical = 1  Skew = 1  Walls <- SmallWalls
  Unreadable = unreadable  MaxOps = 2
SPECIFICATION Spec
INVARIANTS TypeOK
PROPERTIES IssuesRise RecordedUnlessClamped RaisesStayInWindow
