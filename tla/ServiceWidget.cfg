\* presenced.sh against its own header comment.
SPECIFICATION Spec
CONSTANT
    Window = 2
PROPERTY
    WidgetShowsState
