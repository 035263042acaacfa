\* Two lines hold a transition and the line of its command; more lines only keep
\* transitions of earlier processes longer.
SPECIFICATION Spec
CONSTANT
    Window = 2
INVARIANTS
    StatusIsMode
PROPERTIES
    WidgetSettles
    StaysUp
