CONSTANTS
  Self = self
  Machine = {self, p1, p2}
  Session = {s1, s2}
  MaxEvents = 3
SPECIFICATION Spec
SYMMETRY Symmetry
INVARIANTS
  TablesAgree
  EventsTellAll
  ViewNeverDangles
