SPECIFICATION Spec
CONSTANTS
    Pages = {1, 2}
    PageSize = 10
    HeaderSize = 2
    Sizes = {7, 9}
PROPERTIES
    GrowthIsEnough
